---- MODULE Spec2Model ----
(***************************************************************************)
(* Position lifecycle and risk control of the SolTrader repository.        *)
(*                                                                         *)
(*   StoreSpec    the state store (state.js) driven through its exported   *)
(*                operations with arbitrary arguments                      *)
(*   ScalperSpec  scalper.js: the scan interval and the monitor interval   *)
(*                over the one in-memory position                          *)
(*   Spec         monitor.js: the scan cycle and the one-minute position   *)
(*                monitor over the state store, from an empty store        *)
(*   RestartSpec  the same requests over the state file an earlier run of  *)
(*                the day has left                                         *)
(*   SlotsSpec    the same requests over a state file holding              *)
(*                maxConcurrentPositions positions                         *)
(*   ProgramsSpec either program, run on its own                           *)
(*   ExitSpec     one call of checkMechanicalExits or checkExitRules       *)
(*   FilterSpec   one turn of the candidate loop of scanForEntry           *)
(*   AggregateSpec the token map scanForEntry builds from its sources      *)
(*   RebootSpec   scalper.js with the process stopped and started again    *)
(*   SignalSpec   the signal map runScanCycle builds from its sources      *)
(*                                                                         *)
(* Amounts of SOL are integers in units of 1/UnitsPerSol SOL, prices are   *)
(* integers, the store's clock counts hours, the scalper's minutes.  A     *)
(* JavaScript undefined/null is the value the code's truthiness tests      *)
(* treat it as (0, {} or a None value).  Variables commented "history"     *)
(* record what happened and are read by no action.                         *)
(***************************************************************************)
EXTENDS Integers, Sequences, FiniteSets, TLC

VARIABLES
  stateFile,      \* content of config.paths.stateFile, or NoFile (absent / unparsable)
  defaultState,   \* the nested objects of state.js defaultState (shared by every { ...defaultState })
  tradeHistory,   \* trades of config.paths.tradeHistoryFile
  clock,          \* hours since the process loaded state.js
  opened,         \* number of addPosition calls so far (the position ids)
  corrupted,      \* number of times the state file became unreadable
  sumPnl,         \* history: sum of the pnl of all trades closed so far
  peakPnl,        \* history: maximum of sumPnl so far
  currentPosition,  \* scalper: the open position, or NoPosition (null)
  stats,            \* scalper: trades, wins, losses of the session
  isScanning,       \* scalper: scanForEntry's in-progress flag
  tokenCooldowns,   \* scalper: address -> [time, wasProfit], or NoCooldown (no entry)
  minutes,          \* scalper: Date.now(), in minutes
  scanPc,           \* scalper: where scanForEntry is suspended
  scanList,         \* scalper: the entries of allTokens still to evaluate
  inflight,         \* scalper: per pending monitorPosition call, the address it fetches
  exits,            \* history: per token, the last executeSell of a position on it
  lastSeen,         \* history: the price the previous tick observed for the position
  lastTick,         \* history: what the latest monitoring tick saw and did
  isRunning,        \* monitor.js: runScanCycle's in-progress flag
  scan,             \* monitor.js: where runScanCycle is suspended, with its locals
  mon,              \* monitor.js: where monitorPositions is suspended, with its locals
  lastCheck,        \* history: the latest checkMechanicalExits call and its result
  tpDone,           \* history: <<position id, rung>> of the take-profit sells that succeeded
  high,             \* history: per position id, the highest price observed since entry
  cycles,           \* number of cron callbacks (scan cycles, monitoring runs) still to start
  call,             \* a function of the program and the arguments it is called with
  result            \* what that call returned, or NoResult before it returns

storeVars == <<stateFile, defaultState, tradeHistory, clock, opened, corrupted>>
histVars == <<sumPnl, peakPnl>>
scalperVars == <<currentPosition, stats, isScanning, tokenCooldowns, minutes,
                 scanPc, scanList, inflight, exits, lastSeen, lastTick>>
flowVars == <<isRunning, scan, mon, lastCheck, tpDone, high, cycles>>
callVars == <<call, result>>
nonScalperVars == <<storeVars, histVars, flowVars, callVars>>
nonStoreVars == <<scalperVars, flowVars, callVars>>
nonCallVars == <<storeVars, histVars, scalperVars, flowVars>>
vars == <<storeVars, histVars, scalperVars, flowVars, callVars>>

----------------------------------------------------------------------------
(* Bounds *)

MaxOpened == 5
MaxClock == 30
MaxCorrupted == 1
ClockStep == 24
MaxBuys == 1
MaxCycles == 3
MaxSlotsCycles == 2
MaxMinutes == 30
MinuteStep == 5
MaxTrades == 2

Tokens == {"tokA", "tokB"}
FlowTokens == Tokens \cup {"tokC"}
UnitsPerSol == 2 * 1000
Sol(n) == n * UnitsPerSol

----------------------------------------------------------------------------
(* config.js, risk section *)

maxPositionSize == 5
maxLossPerDay == 20
maxConcurrentPositions == 2
stopLossPercent == -15
takeProfitLevels == << [percent |-> 20, sellPercent |-> 50],
                       [percent |-> 40, sellPercent |-> 30],
                       [percent |-> 100, sellPercent |-> 20] >>
trailingStopPercent == 12
deadTokenTimeoutHours == 6

----------------------------------------------------------------------------
(* state.js *)

NoFile == [unreadable |-> TRUE]
Readable(file) == "positions" \in DOMAIN file
NoReason == "null"

Today(now) == now \div 24

FreshStats(date) == [date |-> date, trades |-> 0, wins |-> 0, losses |-> 0]

defaultStateInit ==
  [positions |-> << >>,
   pnl |-> [total |-> 0, today |-> 0, realized |-> 0],
   dailyStats |-> FreshStats(0)]

\* readState(): the parsed file with the daily reset applied, or a shallow
\* copy of defaultState when the file is absent or cannot be parsed.
readState(file, dflt, now) ==
  IF Readable(file)
  THEN IF file.dailyStats.date # Today(now)
       THEN [file EXCEPT !.dailyStats = FreshStats(Today(now)), !.pnl.today = 0]
       ELSE file
  ELSE [positions |-> dflt.positions, pnl |-> dflt.pnl, dailyStats |-> dflt.dailyStats,
        isPaused |-> FALSE, pauseReason |-> NoReason]

\* The store as one value: E.file, E.dflt, E.hist.
\* writeState(state) after a readState() of E: the file takes the state; when
\* the state was the copy of defaultState, its nested objects are those of
\* defaultState, so their mutations stay in defaultState.
writeState(E, state) ==
  [E EXCEPT !.file = state,
            !.dflt = IF ~Readable(E.file)
                     THEN [positions |-> state.positions, pnl |-> state.pnl,
                           dailyStats |-> state.dailyStats]
                     ELSE E.dflt]

IndexOf(positions, tokenAddress) ==
  IF \E i \in 1..Len(positions) : positions[i].tokenAddress = tokenAddress
  THEN CHOOSE i \in 1..Len(positions) :
         /\ positions[i].tokenAddress = tokenAddress
         /\ \A j \in 1..(i-1) : positions[j].tokenAddress # tokenAddress
  ELSE 0

RemoveAt(s, i) == [j \in 1..(Len(s)-1) |-> IF j < i THEN s[j] ELSE s[j+1]]

getPositions(E, now) == readState(E.file, E.dflt, now).positions

\* getPosition(tokenAddress): the position, or None for undefined
None == [id |-> 0]
\* variant: a lookup that never finds the position
getPositionMissed(E, tokenAddress, now) == None

getPosition(E, tokenAddress, now) ==
  LET ps == getPositions(E, now)
      i == IndexOf(ps, tokenAddress)
  IN IF i = 0 THEN None ELSE ps[i]

addPosition(E, id, position, now) ==
  LET state == readState(E.file, E.dflt, now)
      newPosition == [id |-> id,
                      tokenAddress |-> position.tokenAddress,
                      entryPrice |-> position.entryPrice,
                      solSpent |-> position.solSpent,
                      entryTime |-> now,
                      currentPrice |-> position.entryPrice]
  IN writeState(E, [state EXCEPT !.positions = Append(@, newPosition)])

updatePositionPrice(E, tokenAddress, currentPrice, now) ==
  LET state == readState(E.file, E.dflt, now)
      i == IndexOf(state.positions, tokenAddress)
  IN IF i = 0 THEN E
     ELSE writeState(E, [state EXCEPT !.positions[i].currentPrice = currentPrice])

\* variant: a close that finds no position still counts a trade of the day
closePositionUnchecked(E, tokenAddress, exitPrice, solReceived, now) ==
  LET state == readState(E.file, E.dflt, now)
      i == IndexOf(state.positions, tokenAddress)
  IN IF i = 0 THEN writeState(E, [state EXCEPT !.dailyStats.trades = @ + 1])
     ELSE LET position == state.positions[i]
              pnl == solReceived - position.solSpent
              trade == [positionId |-> position.id,
                        tokenAddress |-> position.tokenAddress,
                        entryPrice |-> position.entryPrice,
                        exitPrice |-> exitPrice,
                        solSpent |-> position.solSpent,
                        solReceived |-> solReceived,
                        pnl |-> pnl,
                        exitTime |-> now]
              s1 == [state EXCEPT !.positions = RemoveAt(@, i),
                                  !.pnl.realized = @ + pnl,
                                  !.pnl.total = @ + pnl,
                                  !.pnl.today = @ + pnl,
                                  !.dailyStats.trades = @ + 1,
                                  !.dailyStats.wins = IF pnl > 0 THEN @ + 1 ELSE @,
                                  !.dailyStats.losses = IF pnl > 0 THEN @ ELSE @ + 1]
              s2 == IF s1.pnl.today < -Sol(maxLossPerDay)
                    THEN [s1 EXCEPT !.isPaused = TRUE, !.pauseReason = "daily_loss"]
                    ELSE s1
          IN [writeState(E, s2) EXCEPT !.hist = Append(E.hist, trade)]

closePosition(E, tokenAddress, exitPrice, solReceived, now) ==
  LET state == readState(E.file, E.dflt, now)
      i == IndexOf(state.positions, tokenAddress)
  IN IF i = 0 THEN E
     ELSE LET position == state.positions[i]
              pnl == solReceived - position.solSpent
              trade == [positionId |-> position.id,
                        tokenAddress |-> position.tokenAddress,
                        entryPrice |-> position.entryPrice,
                        exitPrice |-> exitPrice,
                        solSpent |-> position.solSpent,
                        solReceived |-> solReceived,
                        pnl |-> pnl,
                        exitTime |-> now]
              s1 == [state EXCEPT !.positions = RemoveAt(@, i),
                                  !.pnl.realized = @ + pnl,
                                  !.pnl.total = @ + pnl,
                                  !.pnl.today = @ + pnl,
                                  !.dailyStats.trades = @ + 1,
                                  !.dailyStats.wins = IF pnl > 0 THEN @ + 1 ELSE @,
                                  !.dailyStats.losses = IF pnl > 0 THEN @ ELSE @ + 1]
              s2 == IF s1.pnl.today < -Sol(maxLossPerDay)
                    THEN [s1 EXCEPT !.isPaused = TRUE, !.pauseReason = "daily_loss"]
                    ELSE s1
          IN [writeState(E, s2) EXCEPT !.hist = Append(E.hist, trade)]

\* variant: without the check of the number of open positions
canOpenPositionAnyCount(E, now) ==
  LET state == readState(E.file, E.dflt, now)
  IN /\ ~state.isPaused
     /\ ~(state.pnl.today < -Sol(maxLossPerDay))

canOpenPosition(E, now) ==
  LET state == readState(E.file, E.dflt, now)
  IN /\ ~state.isPaused
     /\ ~(Len(state.positions) >= maxConcurrentPositions)
     /\ ~(state.pnl.today < -Sol(maxLossPerDay))

pauseTrading(E, reason, now) ==
  LET state == readState(E.file, E.dflt, now)
  IN writeState(E, [state EXCEPT !.isPaused = TRUE, !.pauseReason = reason])

resumeTrading(E, now) ==
  LET state == readState(E.file, E.dflt, now)
  IN writeState(E, [state EXCEPT !.isPaused = FALSE, !.pauseReason = NoReason])

----------------------------------------------------------------------------
(* scalper.js (the "MOMENTUM SCALPER v3" part of src/new-launches.js) *)

COOLDOWN_MINUTES == 10
PROFIT_COOLDOWN_MINUTES == 30
TAKE_PROFIT_PERCENT == 5
STOP_LOSS_PERCENT == -10
MAX_HOLD_MINUTES == 10
MIN_PROFIT_FOR_HOLD == 5
MIN_SIGNALS == 1
MIN_BUY_SELL_RATIO == 1
MIN_5M_CHANGE == 5
MAX_5M_CHANGE == 40
MIN_LIQUIDITY == 8000
MAX_AGE_HOURS == 4

NoPosition == [address |-> "null"]
NoCooldown == [time |-> -1]
NoFetch == [address |-> "none"]
NoExit == [time |-> -1]
NoData == [priceUsd |-> -1]
NoPair == [chainId |-> "none"]
NoPrice == -1
NoTick == [price |-> -1]
MonitorCalls == {1, 2}

\* parseFloat(pair.priceUsd) || 0, the field being absent or not a number
\* (NoPrice) or a number
parsePrice(priceUsd) == IF priceUsd = NoPrice THEN 0 ELSE priceUsd

\* getTokenData's result for the first solana pair of the response
getTokenData(pair) ==
  IF pair = NoPair THEN NoData
  ELSE [address |-> pair.baseToken,
        priceUsd |-> parsePrice(pair.priceUsd),
        priceChange5m |-> pair.m5,
        priceChange1h |-> pair.h1,
        liquidity |-> pair.liquidity,
        buys |-> pair.buys,
        sells |-> pair.sells,
        ageHours |-> pair.ageHours]

\* pnlPercent = ((currentPrice - entryPrice) / entryPrice) * 100 compared with a
\* threshold; with entryPrice 0 the quotient is Infinity (currentPrice > 0) or
\* NaN (currentPrice 0), and every comparison with NaN is false.
PnlGE(currentPrice, entryPrice, percent) ==
  IF entryPrice = 0 THEN currentPrice > 0
  ELSE (currentPrice - entryPrice) * 100 >= percent * entryPrice

PnlLE(currentPrice, entryPrice, percent) ==
  IF entryPrice = 0 THEN FALSE
  ELSE (currentPrice - entryPrice) * 100 <= percent * entryPrice

PnlLT(currentPrice, entryPrice, percent) ==
  IF entryPrice = 0 THEN FALSE
  ELSE (currentPrice - entryPrice) * 100 < percent * entryPrice

\* variant: the end of the window still counts as on cooldown
isOnCooldownInclusive(cooldowns, address, now) ==
  IF cooldowns[address] = NoCooldown THEN FALSE
  ELSE LET cd == cooldowns[address]
           cooldownMs == IF cd.wasProfit THEN PROFIT_COOLDOWN_MINUTES ELSE COOLDOWN_MINUTES
           elapsed == now - cd.time
       IN elapsed <= cooldownMs

isOnCooldown(cooldowns, address, now) ==
  IF cooldowns[address] = NoCooldown THEN FALSE
  ELSE LET cd == cooldowns[address]
           cooldownMs == IF cd.wasProfit THEN PROFIT_COOLDOWN_MINUTES ELSE COOLDOWN_MINUTES
           elapsed == now - cd.time
       IN elapsed < cooldownMs

\* variant: no timeout rule
checkExitRulesNoTimeout(position, currentPrice, now) ==
  IF PnlGE(currentPrice, position.entryPrice, TAKE_PROFIT_PERCENT)
  THEN [shouldExit |-> TRUE, reason |-> "TAKE_PROFIT"]
  ELSE IF PnlLE(currentPrice, position.entryPrice, STOP_LOSS_PERCENT)
  THEN [shouldExit |-> TRUE, reason |-> "STOP_LOSS"]
  ELSE [shouldExit |-> FALSE, reason |-> "none"]

checkExitRules(position, currentPrice, now) ==
  LET holdMinutes == now - position.entryTime
  IN IF PnlGE(currentPrice, position.entryPrice, TAKE_PROFIT_PERCENT)
     THEN [shouldExit |-> TRUE, reason |-> "TAKE_PROFIT"]
     ELSE IF PnlLE(currentPrice, position.entryPrice, STOP_LOSS_PERCENT)
     THEN [shouldExit |-> TRUE, reason |-> "STOP_LOSS"]
     ELSE IF holdMinutes >= MAX_HOLD_MINUTES
             /\ PnlLT(currentPrice, position.entryPrice, MIN_PROFIT_FOR_HOLD)
     THEN [shouldExit |-> TRUE, reason |-> "TIMEOUT"]
     ELSE [shouldExit |-> FALSE, reason |-> "none"]

\* the checks of scanForEntry on the data getTokenData returned
\* buySellRatio = sells > 0 ? buys / sells : (buys > 0 ? 2 : 1), compared with
\* MIN_BUY_SELL_RATIO
buySellRatioOk(token) ==
  IF token.sells > 0 THEN token.buys >= MIN_BUY_SELL_RATIO * token.sells
  ELSE (IF token.buys > 0 THEN 2 ELSE 1) >= MIN_BUY_SELL_RATIO

\* variant: the liquidity of the token is not looked at
entryChecksPassAnyLiquidity(token, sources) ==
  LET signalCount == Cardinality(sources) + (IF token.priceChange1h > 50 THEN 1 ELSE 0)
      strongPump == token.priceChange5m >= 8
      effectiveSignals == signalCount + (IF strongPump THEN 1 ELSE 0)
      isFreshSource == "GECKO_NEW" \in sources \/ "PUMP_FUN" \in sources
  IN /\ effectiveSignals >= MIN_SIGNALS
     /\ buySellRatioOk(token)
     /\ token.priceChange5m >= MIN_5M_CHANGE
     /\ (isFreshSource \/ token.priceChange5m <= MAX_5M_CHANGE)
     /\ token.ageHours <= MAX_AGE_HOURS
     /\ token.priceChange5m > -5

entryChecksPass(token, sources) ==
  LET signalCount == Cardinality(sources) + (IF token.priceChange1h > 50 THEN 1 ELSE 0)
      strongPump == token.priceChange5m >= 8
      effectiveSignals == signalCount + (IF strongPump THEN 1 ELSE 0)
      isFreshSource == "GECKO_NEW" \in sources \/ "PUMP_FUN" \in sources
      minLiquidity == IF "PUMP_FUN" \in sources THEN 2000 ELSE MIN_LIQUIDITY
  IN /\ effectiveSignals >= MIN_SIGNALS
     /\ buySellRatioOk(token)
     /\ token.priceChange5m >= MIN_5M_CHANGE
     /\ (isFreshSource \/ token.priceChange5m <= MAX_5M_CHANGE)
     /\ token.liquidity >= minLiquidity
     /\ token.ageHours <= MAX_AGE_HOURS
     /\ token.priceChange5m > -5

\* executeBuy(token): the new currentPosition (id numbers the session's buys)
executeBuy(token, now, id) ==
  [address |-> token.address, entryPrice |-> token.priceUsd, entryTime |-> now,
   id |-> id]

\* executeSell(reason, currentPrice, pnlPercent): the cooldown entry and the stats
executeSell(position, cooldowns, st, currentPrice, now) ==
  LET wasProfit == PnlGE(currentPrice, position.entryPrice, 0)
  IN [cooldowns |-> [cooldowns EXCEPT ![position.address] =
                        [time |-> now, wasProfit |-> wasProfit]],
      stats |-> IF wasProfit THEN [st EXCEPT !.wins = @ + 1]
                ELSE [st EXCEPT !.losses = @ + 1],
      wasProfit |-> wasProfit]

\* The for loop of scanForEntry from the entries in list up to its next await:
\* the entries it leaves, the first of them being the one whose data it awaits.
RECURSIVE scanLoop(_, _, _, _)
scanLoop(list, position, cooldowns, now) ==
  IF list = << >> \/ position # NoPosition THEN << >>
  ELSE IF isOnCooldown(cooldowns, Head(list), now)
       THEN scanLoop(Tail(list), position, cooldowns, now)
       ELSE list

----------------------------------------------------------------------------
(* executor.js: the mechanical exit rules *)

NoExitCheck == [shouldExit |-> FALSE, exitPercent |-> 0, reason |-> "none", tpLevel |-> 0]

\* position.takeProfitHit and position.highestPrice: undefined (an empty list,
\* a falsy price) when the stored position has no such field
takeProfitHitOf(position) ==
  IF "takeProfitHit" \in DOMAIN position THEN position.takeProfitHit ELSE {}

highestPriceOf(position) ==
  IF "highestPrice" \in DOMAIN position THEN position.highestPrice ELSE 0

\* the first rung of takeProfitLevels, in configuration order, that the pnl has
\* reached and that position.takeProfitHit does not include; 0 when none
\* variant: the highest rung reached instead of the first in configuration order
lastTakeProfit(position, currentPrice) ==
  LET hits == {i \in 1..Len(takeProfitLevels) :
                 /\ PnlGE(currentPrice, position.entryPrice, takeProfitLevels[i].percent)
                 /\ takeProfitLevels[i].percent \notin takeProfitHitOf(position)}
  IN IF hits = {} THEN 0 ELSE CHOOSE i \in hits : \A j \in hits : i >= j

firstTakeProfit(position, currentPrice) ==
  LET hits == {i \in 1..Len(takeProfitLevels) :
                 /\ PnlGE(currentPrice, position.entryPrice, takeProfitLevels[i].percent)
                 /\ takeProfitLevels[i].percent \notin takeProfitHitOf(position)}
  IN IF hits = {} THEN 0 ELSE CHOOSE i \in hits : \A j \in hits : i <= j

checkMechanicalExits(position, currentPrice, now) ==
  LET tp == firstTakeProfit(position, currentPrice)
      highestPrice == highestPriceOf(position)
      hoursHeld == now - position.entryTime
  IN IF PnlLE(currentPrice, position.entryPrice, stopLossPercent)
     THEN [shouldExit |-> TRUE, exitPercent |-> 100, reason |-> "stop_loss", tpLevel |-> 0]
     ELSE IF tp # 0
     THEN [shouldExit |-> TRUE, exitPercent |-> takeProfitLevels[tp].sellPercent,
           reason |-> "take_profit", tpLevel |-> takeProfitLevels[tp].percent]
     ELSE IF /\ takeProfitHitOf(position) # {}
             /\ highestPrice # 0
             /\ (currentPrice - highestPrice) * 100 <= (-trailingStopPercent) * highestPrice
     THEN [shouldExit |-> TRUE, exitPercent |-> 100, reason |-> "trailing_stop", tpLevel |-> 0]
     ELSE IF /\ hoursHeld >= deadTokenTimeoutHours
             /\ PnlLT(currentPrice, position.entryPrice, 10)
             /\ ~PnlLE(currentPrice, position.entryPrice, -10)
     THEN [shouldExit |-> TRUE, exitPercent |-> 100, reason |-> "dead_token", tpLevel |-> 0]
     ELSE NoExitCheck

\* position.solSpent * (1 + (currentPrice - position.entryPrice) / position.entryPrice)
solReceivedAt(position, currentPrice) ==
  (position.solSpent * currentPrice) \div position.entryPrice

\* the partial-exit branch of evaluatePositions: the rung is pushed on a
\* position object read for the purpose, and the state written is a new read
recordTakeProfitHit(E, tokenAddress, tpLevel, now) ==
  LET updatedPosition == getPosition(E, tokenAddress, now)
      takeProfitHit == takeProfitHitOf(updatedPosition) \cup {tpLevel}
  IN writeState(E, readState(E.file, E.dflt, now))

----------------------------------------------------------------------------
(* The store as the variables hold it *)

Store == [file |-> stateFile, dflt |-> defaultState, hist |-> tradeHistory]

SetStore(E) ==
  /\ stateFile' = E.file
  /\ defaultState' = E.dflt
  /\ tradeHistory' = E.hist

isPaused == readState(stateFile, defaultState, clock).isPaused
positionsNow == readState(stateFile, defaultState, clock).positions
pnlNow == readState(stateFile, defaultState, clock).pnl

\* history of realized P&L: what a close adds to the sum and the peak
NotePnl(E) ==
  LET added == IF Len(E.hist) > Len(tradeHistory) THEN E.hist[Len(E.hist)].pnl ELSE 0
      s == sumPnl + added
  IN /\ sumPnl' = s
     /\ peakPnl' = IF s > peakPnl THEN s ELSE peakPnl

----------------------------------------------------------------------------
(* The initial state: no state file, no scalper position, no cycle running *)

\* no function is being called
NoCall == [fn |-> "none"]
NoResult == [returned |-> FALSE]

\* tokenDataMap[address] is undefined
NoPriceData == -1
ScanIdle == [pc |-> "idle", positions |-> << >>, map |-> [t \in FlowTokens |-> NoPriceData],
             cands |-> << >>, exitCheck |-> NoExitCheck, sellPercent |-> 0, size |-> 0]
MonIdle == [pc |-> "idle", positions |-> << >>, price |-> 0, exitCheck |-> NoExitCheck]

NoCheck == [id |-> 0]

FlowInit ==
  /\ lastCheck = NoCheck
  /\ isRunning = FALSE
  /\ scan = ScanIdle
  /\ mon = MonIdle
  /\ tpDone = {}
  /\ high = [i \in 1..MaxOpened |-> 0]
  /\ cycles = MaxCycles

ScalperInit ==
  /\ currentPosition = NoPosition
  /\ stats = [trades |-> 0, wins |-> 0, losses |-> 0]
  /\ isScanning = FALSE
  /\ tokenCooldowns = [t \in Tokens |-> NoCooldown]
  /\ minutes = 0
  /\ scanPc = "idle"
  /\ scanList = << >>
  /\ inflight = [m \in MonitorCalls |-> NoFetch]
  /\ exits = [t \in Tokens |-> NoExit]
  /\ lastSeen = 0
  /\ lastTick = NoTick

\* the modules loaded, nothing called yet
Loaded ==
  /\ stateFile = NoFile
  /\ defaultState = defaultStateInit
  /\ tradeHistory = << >>
  /\ clock = 0
  /\ opened = 0
  /\ corrupted = 0
  /\ sumPnl = 0
  /\ peakPnl = 0
  /\ ScalperInit
  /\ FlowInit

Init ==
  /\ Loaded
  /\ call = NoCall
  /\ result = NoResult

----------------------------------------------------------------------------
(* StoreSpec: the exported operations of state.js, called in any order *)

StoreTokens == {"tokA"}
StoreSolReceiveds == {0, Sol(5 * maxPositionSize)}

StoreAdd ==
  /\ opened < MaxOpened
  /\ Len(positionsNow) < maxConcurrentPositions
  /\ \E t \in StoreTokens :
       SetStore(addPosition(Store, opened + 1,
                            [tokenAddress |-> t, entryPrice |-> 100,
                             solSpent |-> Sol(maxPositionSize)], clock))
  /\ opened' = opened + 1
  /\ UNCHANGED <<clock, corrupted, sumPnl, peakPnl, nonStoreVars>>

StoreUpdate ==
  /\ \E t \in Tokens :
       SetStore(updatePositionPrice(Store, t, 125, clock))
  /\ UNCHANGED <<clock, opened, corrupted, sumPnl, peakPnl, nonStoreVars>>

\* variant: the trade is written to a history that was not read first
StoreCloseOfUnread(tokenAddress, solReceived) ==
  /\ LET C == closePosition(Store, tokenAddress, 125, solReceived, clock)
         E == IF Len(C.hist) > Len(tradeHistory)
              THEN [C EXCEPT !.hist = <<C.hist[Len(C.hist)]>>]
              ELSE C
     IN SetStore(E) /\ NotePnl(E)
  /\ UNCHANGED <<clock, opened, corrupted, nonStoreVars>>

StoreCloseOf(tokenAddress, solReceived) ==
  /\ LET E == closePosition(Store, tokenAddress, 125, solReceived, clock)
     IN SetStore(E) /\ NotePnl(E)
  /\ UNCHANGED <<clock, opened, corrupted, nonStoreVars>>

StoreClose == \E t \in Tokens, r \in StoreSolReceiveds : StoreCloseOf(t, r)

StorePause ==
  /\ SetStore(pauseTrading(Store, "manual", clock))
  /\ UNCHANGED <<clock, opened, corrupted, sumPnl, peakPnl, nonStoreVars>>

StoreResume ==
  /\ SetStore(resumeTrading(Store, clock))
  /\ UNCHANGED <<clock, opened, corrupted, sumPnl, peakPnl, nonStoreVars>>

\* the state file is lost or left unparsable (readState then falls to defaultState)
StoreCorrupt ==
  /\ corrupted < MaxCorrupted
  /\ Readable(stateFile)
  /\ stateFile' = NoFile
  /\ corrupted' = corrupted + 1
  /\ UNCHANGED <<defaultState, tradeHistory, clock, opened, sumPnl, peakPnl, nonStoreVars>>

StoreTick ==
  /\ clock + 24 <= MaxClock
  /\ clock' = clock + 24
  /\ UNCHANGED <<stateFile, defaultState, tradeHistory, opened, corrupted, sumPnl, peakPnl, nonStoreVars>>

StoreNext ==
  \/ StoreAdd
  \/ StoreUpdate
  \/ StoreClose
  \/ StorePause
  \/ StoreResume
  \/ StoreCorrupt
  \/ StoreTick

StoreSpec == Init /\ [][StoreNext]_vars

----------------------------------------------------------------------------
(* ScalperSpec: the scan interval and the monitor interval of startScalper *)

Prices == {NoPrice, 88, 94, 105}
EntryPrices == {NoPrice, 100}
SourceSets == {{"SEARCH"}, {"PUMP_FUN"}, {"GECKO_NEW", "SEARCH"}}
M5Changes == {0, 10, 50}
Liquidities == {5000, 10000}
Txns == {<<1, 2>>, <<2, 1>>}
Ages == {1, 5}

Pair(base, price, m5, liq, txns, age) ==
  [chainId |-> "solana", baseToken |-> base, priceUsd |-> price, m5 |-> m5,
   h1 |-> 0, liquidity |-> liq, buys |-> txns[1], sells |-> txns[2],
   ageHours |-> age]

ScanPairs ==
  {Pair(b, p, m, l, x, a) : b \in Tokens, p \in EntryPrices, m \in M5Changes,
                            l \in Liquidities, x \in Txns, a \in Ages}

MonitorPairs ==
  {Pair(b, p, 10, 10000, <<2, 1>>, 1) : b \in Tokens, p \in Prices}

TokenLists ==
  {<< >>} \cup {<<t>> : t \in Tokens}
          \cup {l \in {<<t, u>> : t \in Tokens, u \in Tokens} : l[1] # l[2]}

NothingInFlight == \A m \in MonitorCalls : inflight[m] = NoFetch

\* scanForEntry leaves its loop: isScanning = false
ScanEnd ==
  /\ isScanning' = FALSE
  /\ scanPc' = "idle"
  /\ scanList' = << >>

\* scanForEntry runs its loop over list up to the next getTokenData
ScanContinue(list, position) ==
  LET rest == scanLoop(list, position, tokenCooldowns, minutes)
  IN IF rest = << >> THEN ScanEnd
     ELSE /\ scanPc' = "tokenData"
          /\ scanList' = rest
          /\ UNCHANGED isScanning

\* variant: a scan starts whether or not a position is open
ScalperScanStartAnyPosition ==
  /\ ~isScanning
  /\ stats.trades < MaxTrades
  /\ isScanning' = TRUE
  /\ scanPc' = "sources"
  /\ UNCHANGED nonScalperVars
  /\ UNCHANGED <<currentPosition, stats, tokenCooldowns, minutes, scanList,
                 inflight, exits, lastSeen, lastTick>>

\* the scan interval fires and scanForEntry starts fetching its sources
ScalperScanStart ==
  /\ currentPosition = NoPosition
  /\ ~isScanning
  /\ stats.trades < MaxTrades
  /\ isScanning' = TRUE
  /\ scanPc' = "sources"
  /\ UNCHANGED nonScalperVars
  /\ UNCHANGED <<currentPosition, stats, tokenCooldowns, minutes, scanList,
                 inflight, exits, lastSeen, lastTick>>

\* the sources have answered: allTokens is built and the loop starts
ScalperScanSources ==
  /\ scanPc = "sources"
  /\ \E allTokens \in TokenLists : ScanContinue(allTokens, currentPosition)
  /\ UNCHANGED nonScalperVars
  /\ UNCHANGED <<currentPosition, stats, tokenCooldowns, minutes, inflight,
                 exits, lastSeen, lastTick>>

\* getTokenData(address) has answered for the head of scanList
ScalperScanTokenData ==
  /\ scanPc = "tokenData"
  /\ \E pair \in ScanPairs \cup {NoPair}, sources \in SourceSets :
       LET token == getTokenData(pair)
       IN IF token # NoData /\ entryChecksPass(token, sources)
          THEN /\ currentPosition' = executeBuy(token, minutes, stats.trades + 1)
               /\ stats' = [stats EXCEPT !.trades = @ + 1]
               /\ lastSeen' = token.priceUsd
               /\ ScanEnd
          ELSE /\ ScanContinue(Tail(scanList), currentPosition)
               /\ UNCHANGED <<currentPosition, stats, lastSeen>>
  /\ UNCHANGED nonScalperVars
  /\ UNCHANGED <<tokenCooldowns, minutes, inflight, exits, lastTick>>

\* the monitor interval fires: monitorPosition starts fetching the price
ScalperMonitorStart(m) ==
  /\ currentPosition # NoPosition
  /\ inflight[m] = NoFetch
  /\ inflight' = [inflight EXCEPT ![m] =
                    [address |-> currentPosition.address, id |-> currentPosition.id]]
  /\ UNCHANGED nonScalperVars
  /\ UNCHANGED <<currentPosition, stats, isScanning, tokenCooldowns, minutes,
                 scanPc, scanList, exits, lastSeen, lastTick>>

\* getTokenData has answered a pending monitorPosition call
MonitorDataAnswer(m, pair) ==
  /\ inflight[m] # NoFetch
  /\ inflight' = [inflight EXCEPT ![m] = NoFetch]
  /\   LET token == getTokenData(pair)
       IN IF token = NoData \/ currentPosition = NoPosition
          THEN \* no data, or a TypeError on the null currentPosition
               UNCHANGED <<currentPosition, stats, tokenCooldowns, exits,
                           lastSeen, lastTick>>
          ELSE LET exitCheck == checkExitRules(currentPosition, token.priceUsd, minutes)
                   sold == executeSell(currentPosition, tokenCooldowns, stats,
                                       token.priceUsd, minutes)
               IN /\ lastTick' = [price |-> token.priceUsd, prev |-> lastSeen,
                                  reason |-> exitCheck.reason,
                                  position |-> currentPosition.id,
                                  fetchedFor |-> inflight[m].id]
                  /\ lastSeen' = token.priceUsd
                  /\ IF exitCheck.shouldExit
                     THEN /\ currentPosition' = NoPosition
                          /\ tokenCooldowns' = sold.cooldowns
                          /\ stats' = sold.stats
                          /\ exits' = [exits EXCEPT ![currentPosition.address] =
                                         [time |-> minutes,
                                          wasProfit |-> sold.wasProfit]]
                     ELSE UNCHANGED <<currentPosition, tokenCooldowns, stats, exits>>
  /\ UNCHANGED nonScalperVars
  /\ UNCHANGED <<isScanning, minutes, scanPc, scanList>>

ScalperMonitorData(m) == \E pair \in MonitorPairs \cup {NoPair} : MonitorDataAnswer(m, pair)

\* time passes while no request is pending
ScalperTick ==
  /\ scanPc = "idle"
  /\ NothingInFlight
  /\ minutes + MinuteStep <= MaxMinutes
  /\ minutes' = minutes + MinuteStep
  /\ UNCHANGED nonScalperVars
  /\ UNCHANGED <<currentPosition, stats, isScanning, tokenCooldowns, scanPc,
                 scanList, inflight, exits, lastSeen, lastTick>>

ScalperNext ==
  \/ ScalperScanStart
  \/ ScalperScanSources
  \/ ScalperScanTokenData
  \/ \E m \in MonitorCalls : ScalperMonitorStart(m)
  \/ \E m \in MonitorCalls : ScalperMonitorData(m)
  \/ ScalperTick

ScalperSpec == Init /\ [][ScalperNext]_vars

\* the scalper process is stopped and started again: its module-level state
\* is initialized anew, pending callbacks are gone, the wall clock goes on
ScalperRestart ==
  /\ currentPosition' = NoPosition
  /\ stats' = [trades |-> 0, wins |-> 0, losses |-> 0]
  /\ isScanning' = FALSE
  /\ tokenCooldowns' = [t \in Tokens |-> NoCooldown]
  /\ scanPc' = "idle"
  /\ scanList' = << >>
  /\ inflight' = [m \in MonitorCalls |-> NoFetch]
  /\ exits' = [t \in Tokens |-> NoExit]
  /\ lastSeen' = 0
  /\ lastTick' = NoTick
  /\ UNCHANGED minutes
  /\ UNCHANGED nonScalperVars

RebootNext ==
  \/ ScalperScanStart
  \/ ScalperScanSources
  \/ ScalperScanTokenData
  \/ \E m \in MonitorCalls : ScalperMonitorStart(m)
  \/ \E m \in MonitorCalls : ScalperMonitorData(m)
  \/ ScalperTick
  \/ ScalperRestart

\* RebootSpec: the scalper with restarts of its process
RebootSpec == Init /\ [][RebootNext]_vars

----------------------------------------------------------------------------
(* Spec: monitor.js, the scan cycle (runScanCycle with evaluatePositions and  *)
(* evaluateForEntry) and the one-minute monitorPositions, on the same store. *)
(* Each action is the code between two awaited requests.  Candidates carry a *)
(* price of CandidatePrices.                                                 *)

FlowPrices == {0, 80, 100, 125}
CandidatePrices == {100}
TokenDataMaps == [FlowTokens -> FlowPrices \cup {NoPriceData}]
\* the candidates of a scan cycle, in the order of sortedCandidates
CandidateLists ==
  {<< >>} \cup {<<t>> : t \in FlowTokens}
          \cup {l \in {<<t, u>> : t \in FlowTokens, u \in FlowTokens} : l[1] # l[2]}
ExitDecisions == {[action |-> "HOLD", sellPercent |-> 0],
                  [action |-> "SELL", sellPercent |-> 0],
                  [action |-> "SELL", sellPercent |-> 100]}
EntryDecisions == {[action |-> "SKIP", confidence |-> 0, positionSizeSol |-> 0],
                   [action |-> "BUY", confidence |-> 40, positionSizeSol |-> 7],
                   [action |-> "BUY", confidence |-> 80, positionSizeSol |-> 7]}

Max(a, b) == IF a >= b THEN a ELSE b
Min(a, b) == IF a <= b THEN a ELSE b

Rungs == {takeProfitLevels[i].percent : i \in 1..Len(takeProfitLevels)}

\* the history of one checkMechanicalExits call: what it was given, what it
\* reported, the rungs sold and the highest price seen before it
NoteCheck(G, position, currentPrice, exitCheck) ==
  [G EXCEPT !.high[position.id] = Max(@, currentPrice),
            !.lastCheck = [id |-> position.id, price |-> currentPrice,
                           entryPrice |-> position.entryPrice,
                           reason |-> exitCheck.reason,
                           tpLevel |-> exitCheck.tpLevel,
                           sold |-> {l \in Rungs : <<position.id, l>> \in G.tpDone},
                           highest |-> G.high[position.id],
                           advised |-> FALSE]]

\* evaluatePositions goes on to callClaudeForDecision for the position only
\* past the mechanical exit's continue
\* variant: the advisor is asked whatever the mechanical check reported
consultsAdvisorAlways(exitCheck) == TRUE

consultsAdvisor(exitCheck) == ~exitCheck.shouldExit

\* the history of a callClaudeForDecision call for the position just checked
NoteAdvice(G, asked) ==
  IF asked THEN [G EXCEPT !.lastCheck.advised = TRUE] ELSE G

\* the history of a tick that had no price for the position and called nothing
NoteSkip(G, position, currentPrice) ==
  [G EXCEPT !.lastCheck = [id |-> position.id, price |-> currentPrice,
                           entryPrice |-> position.entryPrice,
                           reason |-> "skipped", tpLevel |-> 0,
                           sold |-> {l \in Rungs : <<position.id, l>> \in G.tpDone},
                           highest |-> G.high[position.id],
                           advised |-> FALSE]]

History == [high |-> high, tpDone |-> tpDone, lastCheck |-> lastCheck]

SetHistory(G) ==
  /\ high' = G.high
  /\ tpDone' = G.tpDone
  /\ lastCheck' = G.lastCheck

\* the fields of a position that runScanCycle and monitorPositions read from
\* the list getPositions() gave them
Snapshot(positions) ==
  [i \in 1..Len(positions) |->
     [id |-> positions[i].id, tokenAddress |-> positions[i].tokenAddress,
      entryPrice |-> positions[i].entryPrice, solSpent |-> positions[i].solSpent,
      entryTime |-> positions[i].entryTime]]

TokensOf(positions) == {positions[i].tokenAddress : i \in 1..Len(positions)}

\* tokenDataMap, as far as the rest of the cycle reads it
Restrict(tokenDataMap, positions, cands) ==
  [t \in FlowTokens |-> IF t \in TokensOf(positions) \/ t \in {cands[i] : i \in 1..Len(cands)}
                    THEN tokenDataMap[t] ELSE NoPriceData]

\* the for loop of evaluatePositions over the positions it still has to visit,
\* up to its next executeSell (pc "sell" or "advSell") or to its end ("entry"):
\* the outcomes the advisor's decisions allow
RECURSIVE evaluatePositions(_, _, _, _, _)
evaluatePositions(E, G, positions, tokenDataMap, now) ==
  IF positions = << >>
  THEN {[pc |-> "entry", E |-> E, G |-> G, positions |-> positions,
         exitCheck |-> NoExitCheck, sellPercent |-> 0]}
  ELSE LET position == Head(positions)
           currentPrice == tokenDataMap[position.tokenAddress]
       IN IF currentPrice = NoPriceData
          THEN evaluatePositions(E, NoteSkip(G, position, currentPrice),
                                 Tail(positions), tokenDataMap, now)
          ELSE LET E1 == updatePositionPrice(E, position.tokenAddress, currentPrice, now)
                   exitCheck == checkMechanicalExits(position, currentPrice, now)
                   G1 == NoteAdvice(NoteCheck(G, position, currentPrice, exitCheck),
                                    consultsAdvisor(exitCheck))
               IN IF exitCheck.shouldExit
                  THEN {[pc |-> "sell", E |-> E1, G |-> G1, positions |-> positions,
                         exitCheck |-> exitCheck, sellPercent |-> 0]}
                  ELSE UNION {IF decision.action = "SELL"
                              THEN {[pc |-> "advSell", E |-> E1, G |-> G1,
                                     positions |-> positions, exitCheck |-> exitCheck,
                                     sellPercent |-> decision.sellPercent]}
                              ELSE evaluatePositions(E1, G1, Tail(positions),
                                                     tokenDataMap, now)
                              : decision \in ExitDecisions}

\* variant: the cycle ends without the finally block
ScanFinishStuck ==
  /\ UNCHANGED isRunning
  /\ scan' = ScanIdle

\* runScanCycle returns: finally isRunning = false
ScanFinish ==
  /\ isRunning' = FALSE
  /\ scan' = ScanIdle

\* variant: the size the advisor named, without the configured maximum
positionSizeAsked(decision) ==
  IF decision.positionSizeSol = 0 THEN 1 ELSE decision.positionSizeSol

\* Math.min(decision.positionSizeSol || 1, config.risk.maxPositionSize)
positionSize(decision) ==
  Min(IF decision.positionSizeSol = 0 THEN 1 ELSE decision.positionSizeSol,
      maxPositionSize)

\* the entry loop of runScanCycle at the candidate heading cands, up to the
\* executeBuy of evaluateForEntry ("buy") or to the delay after it ("delay")
EntryStep(E, cands, tokenDataMap, decision) ==
  IF cands = << >> \/ ~canOpenPosition(E, clock)
  THEN ScanFinish
  ELSE /\ UNCHANGED isRunning
       /\ IF /\ getPosition(E, Head(cands), clock) = None
             /\ decision.action = "BUY"
             /\ decision.confidence >= 50
             /\ opened < MaxBuys
          THEN scan' = [ScanIdle EXCEPT !.pc = "buy", !.cands = cands,
                           !.map = Restrict(tokenDataMap, << >>, cands),
                           !.size = positionSize(decision)]
          ELSE scan' = [ScanIdle EXCEPT !.pc = "delay", !.cands = cands,
                           !.map = Restrict(tokenDataMap, << >>, cands)]

\* runScanCycle goes on from the positions still to evaluate
ScanRun(E, G, positions, tokenDataMap, cands) ==
  \E run \in evaluatePositions(E, G, positions, tokenDataMap, clock) :
    /\ SetStore(run.E)
    /\ SetHistory(run.G)
    /\ IF run.pc = "entry"
       THEN \E entryDecision \in EntryDecisions :
              EntryStep(run.E, cands, tokenDataMap, entryDecision)
       ELSE /\ UNCHANGED isRunning
            /\ scan' = [pc |-> run.pc, positions |-> run.positions,
                        map |-> Restrict(tokenDataMap, run.positions, cands),
                        cands |-> cands, exitCheck |-> run.exitCheck,
                        sellPercent |-> run.sellPercent, size |-> 0]

\* the history of one answered take-profit sell
NoteTakeProfit(G, position, exitCheck, ok) ==
  IF ok /\ exitCheck.reason = "take_profit"
  THEN [G EXCEPT !.tpDone = @ \cup {<<position.id, exitCheck.tpLevel>>}]
  ELSE G

\* the scan cron fires; a paused store ends the cycle at once
FlowScanStart ==
  /\ ~isRunning
  /\ ~isPaused
  /\ cycles > 0
  /\ cycles' = cycles - 1
  /\ isRunning' = TRUE
  /\ scan' = [ScanIdle EXCEPT !.pc = "gather"]
  /\ UNCHANGED <<storeVars, histVars, scalperVars, callVars, mon, lastCheck, tpDone, high>>

\* the signal sources and screenToken have answered: no candidate at all ends
\* the cycle, otherwise evaluatePositions starts on the positions of the store
ScanGathered(tokenDataMap, cands) ==
  /\ scan.pc = "gather"
  /\ IF cands = << >>
     THEN /\ ScanFinish
          /\ UNCHANGED <<stateFile, defaultState, tradeHistory, lastCheck, tpDone, high>>
     ELSE ScanRun(Store, History, Snapshot(getPositions(Store, clock)), tokenDataMap, cands)
  /\ UNCHANGED <<clock, opened, corrupted, histVars, scalperVars, callVars, cycles, mon>>

FlowScanGathered ==
  \E tokenDataMap \in TokenDataMaps, cands \in CandidateLists :
    /\ \A i \in 1..Len(cands) : tokenDataMap[cands[i]] \in CandidatePrices
    /\ tokenDataMap = Restrict(tokenDataMap, getPositions(Store, clock), cands)
    /\ ScanGathered(tokenDataMap, cands)

\* executeSell has answered for the mechanical exit of the position heading
\* scan.positions.  In the partial-exit branch state.getPosition() is undefined
\* when the position has been closed meanwhile: reading its takeProfitHit
\* throws, and the exception ends the cycle through catch and finally.
ScanSellAnswer(ok) ==
  /\ scan.pc = "sell"
  /\ LET position == Head(scan.positions)
         currentPrice == scan.map[position.tokenAddress]
         exitCheck == scan.exitCheck
         thrown == /\ ok
                   /\ exitCheck.exitPercent # 100
                   /\ exitCheck.tpLevel # 0
                   /\ getPosition(Store, position.tokenAddress, clock) = None
         E1 == IF ~ok THEN Store
               ELSE IF exitCheck.exitPercent = 100
               THEN closePosition(Store, position.tokenAddress, currentPrice,
                                  solReceivedAt(position, currentPrice), clock)
               ELSE IF exitCheck.tpLevel # 0
               THEN recordTakeProfitHit(Store, position.tokenAddress,
                                        exitCheck.tpLevel, clock)
               ELSE Store
     IN IF thrown
        THEN /\ SetStore(Store)
             /\ SetHistory(NoteTakeProfit(History, position, exitCheck, ok))
             /\ ScanFinish
        ELSE ScanRun(E1, NoteTakeProfit(History, position, exitCheck, ok),
                     Tail(scan.positions), scan.map, scan.cands)
  /\ UNCHANGED <<clock, opened, corrupted, histVars, scalperVars, callVars, cycles, mon>>

FlowScanSellDone == \E ok \in BOOLEAN : ScanSellAnswer(ok)

\* executeSell has answered for the advisor's SELL of the position heading
\* scan.positions: executeSell(address, decision.sellPercent || 100)
ScanAdvisorSellAnswer(ok) ==
  /\ scan.pc = "advSell"
  /\ LET position == Head(scan.positions)
         currentPrice == scan.map[position.tokenAddress]
         percentToSell == IF scan.sellPercent = 0 THEN 100 ELSE scan.sellPercent
         E1 == IF ok /\ scan.sellPercent = 100
               THEN closePosition(Store, position.tokenAddress, currentPrice,
                                  solReceivedAt(position, currentPrice), clock)
               ELSE Store
     IN ScanRun(E1, History, Tail(scan.positions), scan.map, scan.cands)
  /\ UNCHANGED <<clock, opened, corrupted, histVars, scalperVars, callVars, cycles, mon>>

FlowScanAdvisorSellDone == \E ok \in BOOLEAN : ScanAdvisorSellAnswer(ok)

\* executeBuy has answered for the candidate heading scan.cands
ScanBuyAnswer(ok) ==
  /\ scan.pc = "buy"
  /\ LET tokenAddress == Head(scan.cands)
         id == opened + 1
     IN IF ok
        THEN /\ SetStore(addPosition(Store, id,
                            [tokenAddress |-> tokenAddress,
                             entryPrice |-> scan.map[tokenAddress],
                             solSpent |-> Sol(scan.size)], clock))
             /\ opened' = id
             /\ high' = [high EXCEPT ![id] = scan.map[tokenAddress]]
        ELSE UNCHANGED <<stateFile, defaultState, tradeHistory, opened, high>>
  /\ scan' = [scan EXCEPT !.pc = "delay"]
  /\ UNCHANGED <<clock, corrupted, histVars, scalperVars, callVars, cycles, isRunning, mon,
                 lastCheck, tpDone>>

FlowScanBuyDone == \E ok \in BOOLEAN : ScanBuyAnswer(ok)

\* the delay between two candidates has elapsed
FlowScanDelayDone ==
  /\ scan.pc = "delay"
  /\ \E entryDecision \in EntryDecisions :
       EntryStep(Store, Tail(scan.cands), scan.map, entryDecision)
  /\ UNCHANGED <<storeVars, histVars, scalperVars, callVars, cycles, mon, lastCheck, tpDone, high>>

\* monitorPositions goes on to the next position of its list, or returns
MonNext(rest) ==
  mon' = IF rest = << >> THEN MonIdle ELSE [MonIdle EXCEPT !.pc = "price", !.positions = rest]

\* variant: monitorPositions returns at once while trading is paused
FlowMonStartUnlessPaused ==
  /\ mon.pc = "idle"
  /\ ~isPaused
  /\ getPositions(Store, clock) # << >>
  /\ cycles > 0
  /\ cycles' = cycles - 1
  /\ MonNext(Snapshot(getPositions(Store, clock)))
  /\ UNCHANGED <<storeVars, histVars, scalperVars, callVars, isRunning, scan, lastCheck, tpDone, high>>

\* the one-minute cron fires with open positions
FlowMonStart ==
  /\ mon.pc = "idle"
  /\ getPositions(Store, clock) # << >>
  /\ cycles > 0
  /\ cycles' = cycles - 1
  /\ MonNext(Snapshot(getPositions(Store, clock)))
  /\ UNCHANGED <<storeVars, histVars, scalperVars, callVars, isRunning, scan, lastCheck, tpDone, high>>

\* getCurrentPrice has answered (0 when the request failed or gave no price)
\* variant: the price is used without the test currentPrice > 0
MonPriceAnswerUnchecked(currentPrice) ==
  /\ mon.pc = "price"
  /\ LET position == Head(mon.positions)
         E1 == updatePositionPrice(Store, position.tokenAddress, currentPrice, clock)
         updated == getPosition(E1, position.tokenAddress, clock)
         checked == IF updated # None THEN updated ELSE position
         exitCheck == checkMechanicalExits(checked, currentPrice, clock)
     IN /\ SetStore(E1)
        /\ SetHistory(NoteCheck(History, checked, currentPrice, exitCheck))
        /\ IF exitCheck.shouldExit
           THEN mon' = [mon EXCEPT !.pc = "sell", !.price = currentPrice,
                                   !.exitCheck = exitCheck]
           ELSE MonNext(Tail(mon.positions))
  /\ UNCHANGED <<clock, opened, corrupted, histVars, scalperVars, callVars, cycles, isRunning, scan>>

\* getCurrentPrice has answered for the position heading mon.positions
MonPriceAnswer(currentPrice) ==
  /\ mon.pc = "price"
  /\ LET position == Head(mon.positions)
         E1 == updatePositionPrice(Store, position.tokenAddress, currentPrice, clock)
         updated == getPosition(E1, position.tokenAddress, clock)
         checked == IF updated # None THEN updated ELSE position
         exitCheck == checkMechanicalExits(checked, currentPrice, clock)
     IN IF currentPrice > 0
        THEN /\ SetStore(E1)
             /\ SetHistory(NoteCheck(History, checked, currentPrice, exitCheck))
             /\ IF exitCheck.shouldExit
                THEN mon' = [mon EXCEPT !.pc = "sell", !.price = currentPrice,
                                        !.exitCheck = exitCheck]
                ELSE MonNext(Tail(mon.positions))
        ELSE /\ MonNext(Tail(mon.positions))
             /\ SetHistory(NoteSkip(History, position, currentPrice))
             /\ UNCHANGED <<stateFile, defaultState, tradeHistory>>
  /\ UNCHANGED <<clock, opened, corrupted, histVars, scalperVars, callVars, cycles, isRunning, scan>>

FlowMonPrice == \E currentPrice \in FlowPrices : MonPriceAnswer(currentPrice)

\* variant: the position is closed whatever executeSell answered
MonSellAnswerUnchecked(ok) ==
  /\ mon.pc = "sell"
  /\ LET position == Head(mon.positions)
         exitCheck == mon.exitCheck
         E1 == IF exitCheck.exitPercent = 100
               THEN closePosition(Store, position.tokenAddress, mon.price,
                                  solReceivedAt(position, mon.price), clock)
               ELSE Store
     IN /\ SetStore(E1)
        /\ SetHistory(NoteTakeProfit(History, position, exitCheck, ok))
  /\ MonNext(Tail(mon.positions))
  /\ UNCHANGED <<clock, opened, corrupted, histVars, scalperVars, callVars, cycles, isRunning, scan>>

\* variant: a sell that failed ends the run
MonSellAnswerAborting(ok) ==
  /\ mon.pc = "sell"
  /\ LET position == Head(mon.positions)
         exitCheck == mon.exitCheck
         E1 == IF ok /\ exitCheck.exitPercent = 100
               THEN closePosition(Store, position.tokenAddress, mon.price,
                                  solReceivedAt(position, mon.price), clock)
               ELSE Store
     IN /\ SetStore(E1)
        /\ SetHistory(NoteTakeProfit(History, position, exitCheck, ok))
  /\ IF ok THEN MonNext(Tail(mon.positions)) ELSE mon' = MonIdle
  /\ UNCHANGED <<clock, opened, corrupted, histVars, scalperVars, callVars, cycles, isRunning, scan>>

\* variant: the close is applied to the positions the run still holds from its
\* read and written back, without the positions added since
MonSellAnswerStale(ok) ==
  /\ mon.pc = "sell"
  /\ LET position == Head(mon.positions)
         exitCheck == mon.exitCheck
         held == {mon.positions[i].id : i \in 1..Len(mon.positions)}
         asRead == [Store EXCEPT !.file.positions =
                                    SelectSeq(@, LAMBDA p : p.id \in held)]
         E1 == IF ok /\ exitCheck.exitPercent = 100
               THEN closePosition(asRead, position.tokenAddress, mon.price,
                                  solReceivedAt(position, mon.price), clock)
               ELSE Store
     IN /\ SetStore(E1)
        /\ SetHistory(NoteTakeProfit(History, position, exitCheck, ok))
  /\ MonNext(Tail(mon.positions))
  /\ UNCHANGED <<clock, opened, corrupted, histVars, scalperVars, callVars, cycles, isRunning, scan>>

\* executeSell has answered for the position heading mon.positions
MonSellAnswer(ok) ==
  /\ mon.pc = "sell"
  /\ LET position == Head(mon.positions)
         exitCheck == mon.exitCheck
         E1 == IF ok /\ exitCheck.exitPercent = 100
               THEN closePosition(Store, position.tokenAddress, mon.price,
                                  solReceivedAt(position, mon.price), clock)
               ELSE Store
     IN /\ SetStore(E1)
        /\ SetHistory(NoteTakeProfit(History, position, exitCheck, ok))
  /\ MonNext(Tail(mon.positions))
  /\ UNCHANGED <<clock, opened, corrupted, histVars, scalperVars, callVars, cycles, isRunning, scan>>

FlowMonSellDone == \E ok \in BOOLEAN : MonSellAnswer(ok)

\* time passes while no request is pending
FlowTick ==
  /\ scan.pc = "idle"
  /\ mon.pc = "idle"
  /\ clock + ClockStep <= MaxClock
  /\ clock' = clock + ClockStep
  /\ UNCHANGED <<stateFile, defaultState, tradeHistory, opened, corrupted, histVars,
                 scalperVars, flowVars, callVars>>

Requests ==
  \/ FlowScanStart
  \/ FlowScanGathered
  \/ FlowScanSellDone
  \/ FlowScanAdvisorSellDone
  \/ FlowScanBuyDone
  \/ FlowScanDelayDone
  \/ FlowMonStart
  \/ FlowMonPrice
  \/ FlowMonSellDone

Next ==
  \/ Requests
  \/ FlowTick

Spec == Init /\ [][Next]_vars

----------------------------------------------------------------------------
(* ProgramsSpec: the two programs of the repository, each run on its own:   *)
(* scalper.js with its in-memory state, or monitor.js with the state file.  *)

\* monitor.js has not run: every step of it starts a cron callback or moves
\* the clock
MonitorIdle == FlowInit /\ clock = 0

ScalperProgram == MonitorIdle /\ ScalperNext

MonitorProgram == ScalperInit /\ Next

ProgramsNext ==
  \/ ScalperProgram
  \/ MonitorProgram

ProgramsSpec == Init /\ [][ProgramsNext]_vars

----------------------------------------------------------------------------
(* ExitSpec: checkMechanicalExits of monitor.js, or checkExitRules of the   *)
(* scalper, called once, on any position and price                          *)

ExitPrices == {80, 88, 95, 100, 125, 140, 200}
HighestPrices == {0, 125, 200}
ExitNows == {0, deadTokenTimeoutHours}

\* a position as checkMechanicalExits reads it; highestPrice 0 and
\* takeProfitHit {} stand for the absent fields as well
ExitPosition(takeProfitHit, highestPrice) ==
  [id |-> 1, tokenAddress |-> "tokA", entryPrice |-> 100,
   solSpent |-> Sol(maxPositionSize), entryTime |-> 0,
   takeProfitHit |-> takeProfitHit, highestPrice |-> highestPrice]

ExitCalls ==
  {[fn |-> "checkMechanicalExits", position |-> ExitPosition(h, hp),
    currentPrice |-> p, now |-> n] :
     h \in SUBSET Rungs, hp \in HighestPrices, p \in ExitPrices, n \in ExitNows}

\* the scalper's position, held from minute 0
ExitRuleCalls ==
  {[fn |-> "checkExitRules", position |-> ExitPosition({}, 0),
    currentPrice |-> p, now |-> n] :
     p \in ExitPrices, n \in {0, MAX_HOLD_MINUTES}}

ExitInit ==
  /\ Loaded
  /\ call \in ExitCalls \cup ExitRuleCalls
  /\ result = NoResult

ExitReturn ==
  /\ call.fn \in {"checkMechanicalExits", "checkExitRules"}
  /\ result = NoResult
  /\ result' = IF call.fn = "checkExitRules"
               THEN checkExitRules(call.position, call.currentPrice, call.now)
               ELSE checkMechanicalExits(call.position, call.currentPrice, call.now)
  /\ UNCHANGED <<nonCallVars, call>>

ExitSpec == ExitInit /\ [][ExitReturn]_vars

----------------------------------------------------------------------------
(* FilterSpec: one turn of the candidate loop of the scalper's scanForEntry, *)
(* on any candidate data, source tags and cooldown entry                     *)

FilterM5Changes == {-10, 0, 10, 50}
FilterLiquidities == {1000, 5000, 10000}
FilterTxns == {<<0, 0>>, <<1, 0>>, <<1, 2>>, <<2, 1>>}
FilterNows == {5, COOLDOWN_MINUTES, PROFIT_COOLDOWN_MINUTES}
FilterCooldowns == {NoCooldown, [time |-> 0, wasProfit |-> TRUE],
                    [time |-> 0, wasProfit |-> FALSE]}

FilterPairs ==
  {Pair("tokA", 100, m, l, x, a) : m \in FilterM5Changes, l \in FilterLiquidities,
                                   x \in FilterTxns, a \in Ages}

FilterCalls ==
  {[fn |-> "scanForEntry", address |-> "tokA", sources |-> s, pair |-> p,
    cooldowns |-> [t \in Tokens |-> IF t = "tokA" THEN c ELSE NoCooldown],
    now |-> n] :
     s \in SourceSets, p \in FilterPairs \cup {NoPair}, c \in FilterCooldowns,
     n \in FilterNows}

\* the body of the for loop of scanForEntry for one entry of allTokens:
\* currentPosition after it
scanCandidate(address, sources, pair, cooldowns, now) ==
  IF isOnCooldown(cooldowns, address, now) THEN NoPosition
  ELSE LET token == getTokenData(pair)
       IN IF token # NoData /\ entryChecksPass(token, sources)
          THEN executeBuy(token, now, 1)
          ELSE NoPosition

FilterInit ==
  /\ Loaded
  /\ call \in FilterCalls
  /\ result = NoResult

FilterReturn ==
  /\ call.fn = "scanForEntry"
  /\ result = NoResult
  /\ result' = [returned |-> TRUE,
                currentPosition |-> scanCandidate(call.address, call.sources, call.pair,
                                                  call.cooldowns, call.now)]
  /\ UNCHANGED <<nonCallVars, call>>

FilterSpec == FilterInit /\ [][FilterReturn]_vars

----------------------------------------------------------------------------
(* AggregateSpec: the answers of the eight sources of one scalper scan       *)
(* combined into tokenMap and cut to allTokens                               *)

\* an address a source left undefined
NoAddress == "undefined"

Item(address, source) == [address |-> address, source |-> source]

\* what one source returns: up to maxLen entries with its own tag
SourceLists(addresses, tags, maxLen) ==
  LET items == {Item(a, t) : a \in addresses, t \in tags}
  IN {<< >>} \cup {<<x>> : x \in items}
       \cup (IF maxLen >= 2 THEN {<<x, y>> : x \in items, y \in items} ELSE {})

mapHas(tokenMap, address) ==
  \E i \in 1..Len(tokenMap) : tokenMap[i].address = address

\* variant: the tag replaces the tags the entry already has
mapAddLast(tokenMap, address, tag) ==
  LET m == IF mapHas(tokenMap, address) THEN tokenMap
           ELSE Append(tokenMap, [address |-> address, sources |-> {}])
  IN [i \in 1..Len(m) |-> IF m[i].address = address
                           THEN [m[i] EXCEPT !.sources = {tag}] ELSE m[i]]

\* if (!tokenMap.has(address)) tokenMap.set(address, new Set());
\* tokenMap.get(address).add(tag): the Map keeps the order of insertion
mapAdd(tokenMap, address, tag) ==
  LET m == IF mapHas(tokenMap, address) THEN tokenMap
           ELSE Append(tokenMap, [address |-> address, sources |-> {}])
  IN [i \in 1..Len(m) |-> IF m[i].address = address
                           THEN [m[i] EXCEPT !.sources = @ \cup {tag}] ELSE m[i]]

\* one for loop over a source's list: the entries with an address (and, for
\* geckoNew, with the given source) are added under the loop's tag
RECURSIVE mergeSource(_, _, _, _)
mergeSource(tokenMap, list, only, tag) ==
  IF list = << >> THEN tokenMap
  ELSE LET t == Head(list)
           taken == (only = "any" \/ t.source = only) /\ t.address # NoAddress
       IN mergeSource(IF taken THEN mapAdd(tokenMap, t.address, tag) ELSE tokenMap,
                      Tail(list), only, tag)

buildTokenMap(c) ==
  LET m1 == mergeSource(<< >>, c.geckoNew, "PUMP_FUN", "PUMP_FUN")
      m2 == mergeSource(m1, c.geckoNew, "GECKO_NEW", "GECKO_NEW")
      m3 == mergeSource(m2, c.geckoTrend, "any", "GECKO_TREND")
      m4 == mergeSource(m3, c.profiles, "any", "PROFILE")
      m5 == mergeSource(m4, c.searchTokens, "any", "SEARCH")
      m6 == mergeSource(m5, c.gainers, "any", "GAINER")
      m7 == mergeSource(m6, c.newPairs, "any", "NEW")
      m8 == mergeSource(m7, c.trending, "any", "TREND")
  IN mergeSource(m8, c.boosted, "any", "BOOST")

\* [...tokenMap.entries()].slice(0, 40)
sliceTokens(tokenMap) ==
  SubSeq(tokenMap, 1, IF Len(tokenMap) < 40 THEN Len(tokenMap) ELSE 40)

AggregateCalls ==
  {[fn |-> "tokenMap", geckoNew |-> gn, geckoTrend |-> gt, profiles |-> pr,
    searchTokens |-> se, gainers |-> ga, newPairs |-> np, trending |-> tr,
    boosted |-> bo] :
     gn \in SourceLists(Tokens, {"PUMP_FUN", "GECKO_NEW"}, 2),
     gt \in SourceLists(Tokens, {"GECKO_TREND"}, 1),
     pr \in SourceLists(Tokens \cup {NoAddress}, {"PROFILE"}, 2),
     se \in SourceLists(Tokens, {"SEARCH"}, 1),
     ga \in SourceLists({"tokA", NoAddress}, {"GAINER"}, 1),
     np \in SourceLists({"tokA"}, {"NEW"}, 1),
     tr \in SourceLists({"tokB"}, {"TREND"}, 1),
     bo \in SourceLists({"tokA"}, {"BOOST"}, 1)}

AggregateInit ==
  /\ Loaded
  /\ call \in AggregateCalls
  /\ result = NoResult

AggregateReturn ==
  /\ call.fn = "tokenMap"
  /\ result = NoResult
  /\ result' = [returned |-> TRUE, tokenMap |-> buildTokenMap(call),
                allTokens |-> sliceTokens(buildTokenMap(call))]
  /\ UNCHANGED <<nonCallVars, call>>

AggregateSpec == AggregateInit /\ [][AggregateReturn]_vars

----------------------------------------------------------------------------
(* SignalSpec: step 2 of runScanCycle in monitor.js, the results of the       *)
(* market scan and of the four signal sources combined into signalMap        *)

SignalTokens == {"v1", "v2", "v3", "v4", "v5", "v6", "v7", "v8", "v9"}
NoEntry == [source |-> "none"]

\* the viral tokens a cycle can report: v1 upwards, scored in falling or in
\* rising order; score is viralScore (ageHours for a fresh launch)
ViralList(n, falling) ==
  [i \in 1..n |-> [address |-> <<"v1", "v2", "v3", "v4", "v5", "v6", "v7", "v8", "v9">>[i],
                    score |-> IF falling THEN 10 - i ELSE i]]

\* what one of the other sources can report: some of v1 and v9
ShortLists ==
  {<< >>, <<[address |-> "v1", score |-> 1]>>, <<[address |-> "v9", score |-> 2]>>,
   <<[address |-> "v1", score |-> 1], [address |-> "v9", score |-> 2]>>}

\* list.filter(x => x.address && !signalMap[x.address]).sort(by score)
\* .slice(0, cap): the addresses kept (scores are distinct)
topOf(signalMap, list, cap, falling) ==
  LET free == {i \in 1..Len(list) : signalMap[list[i].address] = NoEntry}
      before(i) == {j \in free : IF falling THEN list[j].score > list[i].score
                                  ELSE list[j].score < list[i].score}
  IN {list[i].address : i \in {k \in free : Cardinality(before(k)) < cap}}

\* one for loop over a source's list: the signal is added to an entry that
\* exists; a token without entry gets one if it may be screened and
\* screenToken returns data for it
RECURSIVE mergeSignal(_, _, _, _, _, _)
mergeSignal(signalMap, list, signal, source, screened, withData) ==
  IF list = << >> THEN signalMap
  ELSE LET a == Head(list).address
           m == IF signalMap[a] # NoEntry
                THEN [signalMap EXCEPT ![a].signals = @ \cup {signal}]
                ELSE IF a \in screened /\ a \in withData
                THEN [signalMap EXCEPT ![a] = [source |-> source, signals |-> {signal}]]
                ELSE signalMap
       IN mergeSignal(m, Tail(list), signal, source, screened, withData)

RECURSIVE addMarket(_, _)
addMarket(signalMap, list) ==
  IF list = << >> THEN signalMap
  ELSE addMarket([signalMap EXCEPT ![Head(list).address] =
                    [source |-> "market_scan", signals |-> {}]], Tail(list))

buildSignalMap(c) ==
  LET m0 == addMarket([t \in SignalTokens |-> NoEntry], c.marketCandidates)
      m1 == mergeSignal(m0, c.whaleBuys, "whaleActivity", "whale_copy",
                        SignalTokens, c.withData)
      m2 == mergeSignal(m1, c.viralTokens, "viralSignal", "viral_detection",
                        topOf(m1, c.viralTokens, 8, TRUE), c.withData)
      m3 == mergeSignal(m2, c.volumeSpikes, "volumeSpike", "volume_spike",
                        SignalTokens, c.withData)
  IN mergeSignal(m3, c.freshLaunches, "freshLaunch", "fresh_launch",
                 topOf(m3, c.freshLaunches, 10, FALSE), c.withData)

SignalCalls ==
  {[fn |-> "signalMap", marketCandidates |-> mc, whaleBuys |-> wb,
    viralTokens |-> ViralList(n, f), volumeSpikes |-> vs, freshLaunches |-> fl,
    withData |-> SignalTokens \ no] :
     mc \in ShortLists, wb \in ShortLists, n \in 0..9, f \in BOOLEAN,
     vs \in ShortLists, fl \in ShortLists, no \in {{}, {"v1"}, {"v9"}}}

SignalInit ==
  /\ Loaded
  /\ call \in SignalCalls
  /\ result = NoResult

SignalReturn ==
  /\ call.fn = "signalMap"
  /\ result = NoResult
  /\ result' = [returned |-> TRUE, signalMap |-> buildSignalMap(call)]
  /\ UNCHANGED <<nonCallVars, call>>

SignalSpec == SignalInit /\ [][SignalReturn]_vars

\* The monitor started over the state file an earlier run of the same day has
\* left: one open position and a realized loss of maxLossPerDay, which
\* closePosition does not yet count as the daily loss limit.  RestartSpec
\* follows the requests of that day.
PriorPosition ==
  [id |-> MaxOpened, tokenAddress |-> "tokA", entryPrice |-> 100,
   solSpent |-> Sol(maxPositionSize), entryTime |-> 0, currentPrice |-> 100]

PriorFile ==
  [positions |-> <<PriorPosition>>,
   pnl |-> [total |-> -Sol(maxLossPerDay), today |-> -Sol(maxLossPerDay),
            realized |-> -Sol(maxLossPerDay)],
   dailyStats |-> [date |-> 0, trades |-> 4, wins |-> 0, losses |-> 4],
   isPaused |-> FALSE, pauseReason |-> NoReason]

RestartInit ==
  /\ stateFile = PriorFile
  /\ defaultState = defaultStateInit
  /\ tradeHistory = << >>
  /\ clock = 0
  /\ opened = 0
  /\ corrupted = 0
  /\ sumPnl = 0
  /\ peakPnl = 0
  /\ ScalperInit
  /\ lastCheck = NoCheck
  /\ isRunning = FALSE
  /\ scan = ScanIdle
  /\ mon = MonIdle
  /\ tpDone = {}
  /\ high = [i \in 1..MaxOpened |-> IF i = MaxOpened THEN 100 ELSE 0]
  /\ cycles = MaxCycles
  /\ call = NoCall
  /\ result = NoResult

RestartSpec == RestartInit /\ [][Requests]_vars

\* The monitor started over a state file that holds maxConcurrentPositions
\* open positions, one on each token, and no realized P&L.  SlotsSpec follows
\* its requests.
HeldPosition(id, tokenAddress) ==
  [id |-> id, tokenAddress |-> tokenAddress, entryPrice |-> 100,
   solSpent |-> Sol(maxPositionSize), entryTime |-> 0, currentPrice |-> 100]

FullFile ==
  [positions |-> <<HeldPosition(MaxOpened - 1, "tokA"), HeldPosition(MaxOpened, "tokB")>>,
   pnl |-> [total |-> 0, today |-> 0, realized |-> 0],
   dailyStats |-> FreshStats(0),
   isPaused |-> FALSE, pauseReason |-> NoReason]

SlotsInit ==
  /\ stateFile = FullFile
  /\ defaultState = defaultStateInit
  /\ tradeHistory = << >>
  /\ clock = 0
  /\ opened = 0
  /\ corrupted = 0
  /\ sumPnl = 0
  /\ peakPnl = 0
  /\ ScalperInit
  /\ lastCheck = NoCheck
  /\ isRunning = FALSE
  /\ scan = ScanIdle
  /\ mon = MonIdle
  /\ tpDone = {}
  /\ high = [i \in 1..MaxOpened |-> IF i >= MaxOpened - 1 THEN 100 ELSE 0]
  /\ cycles = MaxSlotsCycles
  /\ call = NoCall
  /\ result = NoResult

SlotsSpec == SlotsInit /\ [][Requests]_vars

----------------------------------------------------------------------------
(* Claims on the state store *)

\* C7: at the first close where the peak of cumulative realized P&L minus the
\* cumulative realized P&L reaches the configured drawdown threshold
\* (config.risk.maxLossPerDay), the halt flag is true after that close.
C7_HaltAtDrawdownFromPeak ==
  [][(Len(tradeHistory') > Len(tradeHistory)
        /\ peakPnl' - sumPnl' >= Sol(maxLossPerDay))
     => isPaused']_vars

\* C8: once the halt flag is true it stays true across every step that is not
\* an explicit resumeTrading call.
C8_HaltStickyUntilResume ==
  [][(isPaused /\ ~StoreResume) => isPaused']_vars

----------------------------------------------------------------------------
(* Claims on the scalper *)

CooldownOf(exit) ==
  IF exit.wasProfit THEN PROFIT_COOLDOWN_MINUTES ELSE COOLDOWN_MINUTES

\* C10: in the scalper, a position on token X is never bought before the
\* cooldown of the latest executeSell on X has elapsed: PROFIT_COOLDOWN_MINUTES
\* after an exit with pnl >= 0, COOLDOWN_MINUTES after a loss.
C10_NoBuyDuringCooldown ==
  (currentPosition # NoPosition /\ exits[currentPosition.address] # NoExit)
    => currentPosition.entryTime >=
         exits[currentPosition.address].time + CooldownOf(exits[currentPosition.address])

\* C2: no two monitoring evaluations of the same open position are in
\* progress at the same time.
C2_NoOverlappingMonitorTicks ==
  \A m1, m2 \in MonitorCalls :
    (m1 # m2 /\ inflight[m1] # NoFetch) => inflight[m1] # inflight[m2]

\* C3: a monitoring tick whose price datum is missing or zero fires no exit
\* trigger.
C3_ZeroPriceIsSkippedTick ==
  (lastTick # NoTick /\ lastTick.price = 0) => lastTick.reason = "none"

\* README, scalper.js configuration: the emergency exit trigger
FLASH_CRASH_PERCENT == -5

FlashCrashed(prev, price) == (price - prev) * 100 < FLASH_CRASH_PERCENT * prev

\* C4: a monitoring tick whose price is more than the flash-crash percent
\* below the price of the previous tick exits with reason flash crash and with
\* no other trigger.
C4_FlashCrashExitsAlone ==
  (lastTick # NoTick /\ lastTick.prev > 0 /\ FlashCrashed(lastTick.prev, lastTick.price))
    => lastTick.reason = "FLASH_CRASH"

----------------------------------------------------------------------------
(* Claims on the monitor.js flow *)

\* C1: once a take-profit sell for a rung of a position has succeeded, no
\* later check of that position reports take_profit for the same rung.
C1_TakeProfitRungOnce ==
  (lastCheck # NoCheck /\ lastCheck.reason = "take_profit")
    => lastCheck.tpLevel \notin lastCheck.sold

\* the check saw a price at least trailingStopPercent below the highest price
\* observed, after a rung was sold, with neither the stop loss nor an unsold
\* rung applying
TrailingDue(c) ==
  /\ c.sold # {}
  /\ c.price > 0
  /\ (c.price - c.highest) * 100 <= (-trailingStopPercent) * c.highest
  /\ ~PnlLE(c.price, c.entryPrice, stopLossPercent)
  /\ \A l \in Rungs \ c.sold : ~PnlGE(c.price, c.entryPrice, l)

\* C5: no check reports trailing_stop before a take-profit rung of the position
\* was sold, and after one was sold a check whose price is at least
\* trailingStopPercent below the highest price observed, with no stop loss and
\* no unsold rung applying, reports trailing_stop.
C5_TrailingStopAfterTakeProfit ==
  lastCheck # NoCheck =>
    /\ lastCheck.reason = "trailing_stop" => lastCheck.sold # {}
    /\ TrailingDue(lastCheck) => lastCheck.reason = "trailing_stop"

\* the step handles the successful answer of an executeSell of 100% of the
\* position with this id
FullSellSucceeded(id) ==
  \/ /\ scan.pc = "sell"
     /\ Head(scan.positions).id = id
     /\ scan.exitCheck.exitPercent = 100
     /\ ScanSellAnswer(TRUE)
  \/ /\ scan.pc = "advSell"
     /\ Head(scan.positions).id = id
     /\ (IF scan.sellPercent = 0 THEN 100 ELSE scan.sellPercent) = 100
     /\ ScanAdvisorSellAnswer(TRUE)
  \/ /\ mon.pc = "sell"
     /\ Head(mon.positions).id = id
     /\ mon.exitCheck.exitPercent = 100
     /\ MonSellAnswer(TRUE)

\* the step removes the position, appends one trade and adds its pnl
ClosedInStep(id) ==
  /\ \A i \in 1..Len(positionsNow') : positionsNow'[i].id # id
  /\ Len(tradeHistory') = Len(tradeHistory) + 1
  /\ tradeHistory'[Len(tradeHistory')].positionId = id
  /\ pnlNow'.realized = pnlNow.realized + tradeHistory'[Len(tradeHistory')].pnl

\* C6: the step in which a sell of 100% of a position succeeds removes the
\* position from the store, appends exactly one closed trade and adds its
\* realized pnl.
C6_FullSellClosesPosition ==
  [][\A id \in 1..MaxOpened : FullSellSucceeded(id) => ClosedInStep(id)]_vars

\* C9: addPosition runs only in a state where isPaused is false.
C9_NoAddWhilePaused ==
  [][ScanBuyAnswer(TRUE) => ~isPaused]_vars

\* the token has a closed trade whose exit is not earlier than now
ClosedSince(tokenAddress, now) ==
  \E j \in 1..Len(tradeHistory) :
    /\ tradeHistory[j].tokenAddress = tokenAddress
    /\ tradeHistory[j].exitTime >= now

\* C11: evaluateForEntry adds a position on a token only when time has passed
\* since every full close of a position on that token; a token closed in a scan
\* cycle is not re-opened by the entry step of the same cycle.
C11_NoReentryAfterClose ==
  [][ScanBuyAnswer(TRUE) => ~ClosedSince(Head(scan.cands), clock)]_vars

\* C12: the store's open positions hold at most one position per tokenAddress.
C12_OnePositionPerToken ==
  \A i, j \in 1..Len(positionsNow) :
    positionsNow[i].tokenAddress = positionsNow[j].tokenAddress => i = j

\* the entry loop has passed a candidate that already has an open position
C12_Witness ==
  /\ scan.pc = "delay"
  /\ opened = 0
  /\ getPosition(Store, Head(scan.cands), clock) # None

\* C13: the store holds at most config.risk.maxConcurrentPositions open
\* positions.
C13_BoundedOpenPositions ==
  Len(positionsNow) <= maxConcurrentPositions

\* a buy of this run has filled the last free slot
C13_Witness ==
  /\ opened >= 1
  /\ Len(positionsNow) = maxConcurrentPositions
  /\ \E i \in 1..Len(positionsNow) : positionsNow[i].id = opened

----------------------------------------------------------------------------
(* Claims on checkMechanicalExits *)

\* the conditions of the four triggers, for the position and price of a call
StopLossDue(c) == PnlLE(c.currentPrice, c.position.entryPrice, stopLossPercent)

RungsDue(c) ==
  {l \in Rungs \ c.position.takeProfitHit :
     PnlGE(c.currentPrice, c.position.entryPrice, l)}

TrailingStopDue(c) ==
  /\ c.position.takeProfitHit # {}
  /\ c.position.highestPrice > 0
  /\ (c.currentPrice - c.position.highestPrice) * 100
       <= (-trailingStopPercent) * c.position.highestPrice

DeadTokenDue(c) ==
  /\ c.now - c.position.entryTime >= deadTokenTimeoutHours
  /\ (c.currentPrice - c.position.entryPrice) * 100 < 10 * c.position.entryPrice
  /\ (c.position.entryPrice - c.currentPrice) * 100 < 10 * c.position.entryPrice

LowestRung(rungs) == CHOOSE l \in rungs : \A k \in rungs : l <= k

SellPercentOf(rung) ==
  LET i == CHOOSE k \in 1..Len(takeProfitLevels) : takeProfitLevels[k].percent = rung
  IN takeProfitLevels[i].sellPercent

\* C14: checkMechanicalExits reports the first trigger that holds in the order
\* stop_loss (100%), take_profit (the lowest rung reached and not in
\* takeProfitHit, at its sellPercent), trailing_stop (100%), dead_token (100%),
\* and no exit when none holds.
C14_FirstMatchingExit ==
  (call.fn = "checkMechanicalExits" /\ result # NoResult) =>
    IF StopLossDue(call)
    THEN result.reason = "stop_loss" /\ result.exitPercent = 100
    ELSE IF RungsDue(call) # {}
    THEN /\ result.reason = "take_profit"
         /\ result.tpLevel = LowestRung(RungsDue(call))
         /\ result.exitPercent = SellPercentOf(LowestRung(RungsDue(call)))
    ELSE IF TrailingStopDue(call)
    THEN result.reason = "trailing_stop" /\ result.exitPercent = 100
    ELSE IF DeadTokenDue(call)
    THEN result.reason = "dead_token" /\ result.exitPercent = 100
    ELSE ~result.shouldExit

\* a call in which two rungs, the trailing stop and the timeout window all
\* hold, answered with the lower rung
C14_Witness ==
  /\ call.fn = "checkMechanicalExits"
  /\ result # NoResult
  /\ Cardinality(RungsDue(call)) >= 2
  /\ TrailingStopDue(call)
  /\ result.reason = "take_profit"
  /\ result.tpLevel = 20

----------------------------------------------------------------------------
(* Claims on partial and failed sells in the monitor.js flow *)

\* the step leaves the position open with solSpent reduced to
\* (100 - percent)% and appends no trade
ReducedInStep(position, percent) ==
  /\ tradeHistory' = tradeHistory
  /\ \E i \in 1..Len(positionsNow), j \in 1..Len(positionsNow') :
       /\ positionsNow[i].id = position.id
       /\ positionsNow'[j].id = position.id
       /\ positionsNow'[j].solSpent * 100 = positionsNow[i].solSpent * (100 - percent)

\* C15: the step in which a take-profit sell of less than 100% succeeds leaves
\* the position open with its stored size reduced to the unsold share, and
\* appends no closed trade.
C15_PartialSellReducesSize ==
  [][/\ (scan.pc = "sell" /\ scan.exitCheck.exitPercent < 100 /\ ScanSellAnswer(TRUE))
          => ReducedInStep(Head(scan.positions), scan.exitCheck.exitPercent)
     /\ (mon.pc = "sell" /\ mon.exitCheck.exitPercent < 100 /\ MonSellAnswer(TRUE))
          => ReducedInStep(Head(mon.positions), mon.exitCheck.exitPercent)]_vars

\* the step keeps the open positions, the trade history, the realized P&L,
\* the daily statistics and the halt flag
StoreKeptInStep ==
  /\ Snapshot(positionsNow') = Snapshot(positionsNow)
  /\ tradeHistory' = tradeHistory
  /\ pnlNow' = pnlNow
  /\ readState(stateFile', defaultState', clock').dailyStats
       = readState(stateFile, defaultState, clock).dailyStats
  /\ isPaused' = isPaused

\* C16: the step in which executeSell reports failure, for a mechanical exit
\* or for an advisor's SELL, keeps the position open and leaves the trade
\* history, the realized P&L, the daily statistics and the halt flag as they
\* were; the position is there for the next tick to evaluate.
C16_FailedSellKeepsStore ==
  [][(\/ ScanSellAnswer(FALSE)
      \/ ScanAdvisorSellAnswer(FALSE)
      \/ MonSellAnswer(FALSE)) => StoreKeptInStep]_vars

\* the latest check reported a stop loss, its sell has been answered and the
\* position is still open: the sell failed
C16_Witness ==
  /\ lastCheck # NoCheck
  /\ lastCheck.reason = "stop_loss"
  /\ scan.pc # "sell"
  /\ mon.pc # "sell"
  /\ \E i \in 1..Len(positionsNow) : positionsNow[i].id = lastCheck.id

\* the stored positions and the closed trades of a token
PositionsOf(tokenAddress) ==
  {positionsNow[i] : i \in {j \in 1..Len(positionsNow) :
                              positionsNow[j].tokenAddress = tokenAddress}}
TradesOf(tokenAddress) ==
  SelectSeq(tradeHistory, LAMBDA trade : trade.tokenAddress = tokenAddress)

\* the step leaves the token's position and trades alone and does not go on
\* to an executeSell for it
SkippedInStep(tokenAddress) ==
  /\ PositionsOf(tokenAddress)' = PositionsOf(tokenAddress)
  /\ TradesOf(tokenAddress)' = TradesOf(tokenAddress)
  /\ ~(/\ scan'.pc \in {"sell", "advSell"}
       /\ Head(scan'.positions).tokenAddress = tokenAddress)

\* C17: a tick that gets no price for an open position attempts no sell for
\* it and leaves its stored fields, the trade history, the P&L and the
\* cooldowns as they were: in scalper monitorPosition when getTokenData
\* returns null, in monitorPositions when getCurrentPrice returns 0, and in
\* evaluatePositions for every position whose token is absent from
\* tokenDataMap.
C17_NoPriceNoSell ==
  [][/\ \A m \in MonitorCalls, pair \in MonitorPairs \cup {NoPair} :
          (/\ currentPosition # NoPosition
           /\ getTokenData(pair) = NoData
           /\ MonitorDataAnswer(m, pair))
            => UNCHANGED <<currentPosition, stats, tokenCooldowns, exits>>
     /\ MonPriceAnswer(0)
          => /\ positionsNow' = positionsNow
             /\ tradeHistory' = tradeHistory
             /\ pnlNow' = pnlNow
             /\ mon'.pc # "sell"
     /\ scan.pc = "gather"
          => \A tokenDataMap \in TokenDataMaps, cands \in CandidateLists :
               ScanGathered(tokenDataMap, cands)
                 => \A t \in TokensOf(positionsNow) :
                      tokenDataMap[t] = NoPriceData => SkippedInStep(t)
     /\ (\E ok \in BOOLEAN : ScanSellAnswer(ok) \/ ScanAdvisorSellAnswer(ok))
          => \A t \in TokensOf(Tail(scan.positions)) :
               scan.map[t] = NoPriceData => SkippedInStep(t)]_vars

\* the latest tick had no price for a position and skipped it; the position
\* is still open
C17_Witness ==
  /\ lastCheck # NoCheck
  /\ lastCheck.reason = "skipped"
  /\ \E i \in 1..Len(positionsNow) : positionsNow[i].id = lastCheck.id

\* C18: a position held for the configured maximum whose pnlPercent is below
\* the minimum-to-hold threshold and above the stop loss is exited in full by
\* the timeout trigger of that tick: TIMEOUT in the scalper's checkExitRules,
\* dead_token in checkMechanicalExits (unless the trailing stop, which comes
\* first, fires).
C18_TimeoutExits ==
  /\ (/\ call.fn = "checkExitRules"
      /\ result # NoResult
      /\ call.now - call.position.entryTime >= MAX_HOLD_MINUTES
      /\ PnlLT(call.currentPrice, call.position.entryPrice, MIN_PROFIT_FOR_HOLD)
      /\ ~PnlLE(call.currentPrice, call.position.entryPrice, STOP_LOSS_PERCENT))
       => result.shouldExit /\ result.reason = "TIMEOUT"
  /\ (/\ call.fn = "checkMechanicalExits"
      /\ result # NoResult
      /\ call.now - call.position.entryTime >= deadTokenTimeoutHours
      /\ PnlLT(call.currentPrice, call.position.entryPrice, 10)
      /\ ~StopLossDue(call)
      /\ ~TrailingStopDue(call))
       => /\ result.shouldExit
          /\ result.reason = "dead_token"
          /\ result.exitPercent = 100

\* C19: for a token whose latest exit was at time T, isOnCooldown is true at
\* every now from T up to, and not including, T + PROFIT_COOLDOWN_MINUTES
\* after an exit with pnl >= 0, or T + COOLDOWN_MINUTES after a loss, and
\* false from the end of that window on; the loss window is the shorter one,
\* and the cooldown entry is the one of the latest exit.
C19_CooldownWindow ==
  /\ COOLDOWN_MINUTES < PROFIT_COOLDOWN_MINUTES
  /\ \A t \in Tokens :
       exits[t] # NoExit =>
         /\ tokenCooldowns[t].time = exits[t].time
         /\ tokenCooldowns[t].wasProfit = exits[t].wasProfit
         /\ exits[t].time <= minutes
         /\ isOnCooldown(tokenCooldowns, t, minutes)
              <=> minutes < exits[t].time + CooldownOf(exits[t])

\* the window of a loss exit has just ended: the token is off cooldown at a
\* time at which a profit exit would still hold it
C19_Witness ==
  \E t \in Tokens :
    /\ exits[t] # NoExit
    /\ ~exits[t].wasProfit
    /\ minutes = exits[t].time + COOLDOWN_MINUTES
    /\ ~isOnCooldown(tokenCooldowns, t, minutes)

\* the predicates of the entry filter on the data of a pair
EntryPredicates(pair, sources) ==
  LET bonus1h == IF pair.h1 > 50 THEN 1 ELSE 0
      bonus5m == IF pair.m5 >= 8 THEN 1 ELSE 0
      buySellRatio2 == IF pair.sells > 0 THEN 2 * pair.buys
                       ELSE IF pair.buys > 0 THEN 4 * 1 ELSE 2 * 1
      sells2 == IF pair.sells > 0 THEN 2 * pair.sells ELSE 2
      fresh == sources \cap {"GECKO_NEW", "PUMP_FUN"} # {}
  IN /\ Cardinality(sources) + bonus1h + bonus5m >= MIN_SIGNALS
     /\ buySellRatio2 >= MIN_BUY_SELL_RATIO * sells2
     /\ pair.m5 >= MIN_5M_CHANGE
     /\ (~fresh => pair.m5 <= MAX_5M_CHANGE)
     /\ pair.liquidity >= (IF "PUMP_FUN" \in sources THEN 2000 ELSE MIN_LIQUIDITY)
     /\ pair.ageHours <= MAX_AGE_HOURS
     /\ pair.m5 > -5

\* C20: scanForEntry buys on the data returned for a candidate exactly when
\* the candidate is not on cooldown and effectiveSignals >= MIN_SIGNALS,
\* buySellRatio >= MIN_BUY_SELL_RATIO, 5m change >= MIN_5M_CHANGE, 5m change
\* <= MAX_5M_CHANGE unless the candidate carries GECKO_NEW or PUMP_FUN,
\* liquidity >= 2000 when tagged PUMP_FUN and >= MIN_LIQUIDITY otherwise,
\* age <= MAX_AGE_HOURS, and 5m change > -5: one of them false is no buy.
C20_EntryFilter ==
  (call.fn = "scanForEntry" /\ result # NoResult) =>
    (result.currentPosition # NoPosition
       <=> /\ call.pair # NoPair
           /\ ~isOnCooldown(call.cooldowns, call.address, call.now)
           /\ EntryPredicates(call.pair, call.sources))

\* a candidate with a fresh-source tag bought at a 5m change above
\* MAX_5M_CHANGE, after its cooldown has run out
C20_Witness ==
  /\ call.fn = "scanForEntry"
  /\ result # NoResult
  /\ result.currentPosition # NoPosition
  /\ call.pair.m5 > MAX_5M_CHANGE
  /\ call.cooldowns[call.address] # NoCooldown

----------------------------------------------------------------------------
(* Claims on the scalper's sources *)

\* the (address, tag) pairs the eight sources reported in a scan
Reported(c) ==
  LET lists == <<c.geckoNew, c.geckoTrend, c.profiles, c.searchTokens, c.gainers,
                 c.newPairs, c.trending, c.boosted>>
  IN {r \in UNION {{<<lists[k][i].address, lists[k][i].source>> :
                       i \in 1..Len(lists[k])} : k \in 1..Len(lists)} :
        r[1] # NoAddress}

\* C21: tokenMap has exactly one entry per distinct address the sources
\* reported, and the entry's tags are the tags of all the results that
\* reported the address in this scan.
C21_TagsAreUnioned ==
  (call.fn = "tokenMap" /\ result # NoResult) =>
    LET m == result.tokenMap
    IN /\ \A i, j \in 1..Len(m) : m[i].address = m[j].address => i = j
       /\ {m[i].address : i \in 1..Len(m)} = {r[1] : r \in Reported(call)}
       /\ \A i \in 1..Len(m) :
            m[i].sources = {r[2] : r \in {q \in Reported(call) : q[1] = m[i].address}}

\* a token reported by five sources, one of them twice, next to an entry
\* without address
C21_Witness ==
  /\ call.fn = "tokenMap"
  /\ result # NoResult
  /\ \E i \in 1..Len(result.tokenMap) : Cardinality(result.tokenMap[i].sources) >= 5
  /\ Len(call.geckoNew) = 2
  /\ call.geckoNew[1] = call.geckoNew[2]
  /\ \E i \in 1..Len(call.profiles) : call.profiles[i].address = NoAddress

\* the rank of a candidate in the documented priority order: GECKO_NEW,
\* PUMP_FUN, GECKO_TREND, then the DexScreener sources
PriorityOf(sources) ==
  IF "GECKO_NEW" \in sources THEN 1
  ELSE IF "PUMP_FUN" \in sources THEN 2
  ELSE IF "GECKO_TREND" \in sources THEN 3
  ELSE 4

\* C28: the candidates of a scan are evaluated in the priority order
\* GECKO_NEW, PUMP_FUN, GECKO_TREND, DexScreener sources: no candidate comes
\* before one of a higher priority, and the candidates the 40-entry cap drops
\* are of the lowest priority present.
C28_PriorityOrder ==
  (call.fn = "tokenMap" /\ result # NoResult) =>
    LET m == result.tokenMap
        l == result.allTokens
    IN /\ \A i, j \in 1..Len(l) :
            i < j => PriorityOf(l[i].sources) <= PriorityOf(l[j].sources)
       /\ \A i \in 1..Len(l), j \in (Len(l) + 1)..Len(m) :
            PriorityOf(l[i].sources) <= PriorityOf(m[j].sources)

----------------------------------------------------------------------------
(* Claims on restarts *)

\* C22: the state that gates trading is durable: a restart of the scalper
\* process leaves it with the open position, the cooldown entries and the
\* session statistics it had before.
C22_RestartKeepsState ==
  [][ScalperRestart => /\ currentPosition' = currentPosition
                       /\ tokenCooldowns' = tokenCooldowns
                       /\ stats' = stats]_vars

----------------------------------------------------------------------------
(* Claims on opened positions *)

\* C23: every opened position has entryPrice > 0: a candidate whose price
\* is missing or parsed to 0 never becomes a position.
C23_EntryPricePositive ==
  currentPosition # NoPosition => currentPosition.entryPrice > 0

\* C24: when the pnl reaches the third take-profit level after the first two
\* have triggered, the automatic exit sells all that remains of the position.
C24_ThirdRungSellsAll ==
  (/\ call.fn = "checkMechanicalExits"
   /\ result # NoResult
   /\ call.position.takeProfitHit
        = {takeProfitLevels[1].percent, takeProfitLevels[2].percent}
   /\ PnlGE(call.currentPrice, call.position.entryPrice, takeProfitLevels[3].percent))
    => result.shouldExit /\ result.exitPercent = 100

\* C25: once a tick has had a price for a position, the stored position's
\* highestPrice is the maximum price observed for it since entry.
C25_HighestPriceStored ==
  \A i \in 1..Len(positionsNow) :
    (/\ lastCheck # NoCheck
     /\ lastCheck.id = positionsNow[i].id
     /\ lastCheck.reason # "skipped")
      => highestPriceOf(positionsNow[i]) = high[positionsNow[i].id]

----------------------------------------------------------------------------
(* Claims on the state store's operations *)

\* C26: a closePosition after which the realized P&L of the day is at or
\* below -maxLossPerDay, exactly -maxLossPerDay included, leaves the halt
\* flag set with a reason.
C26_HaltAtLossLimit ==
  [][(/\ Len(tradeHistory') > Len(tradeHistory)
      /\ pnlNow'.today <= -Sol(maxLossPerDay)
      /\ pnlNow'.realized <= -Sol(maxLossPerDay))
       => /\ isPaused'
          /\ readState(stateFile', defaultState', clock').pauseReason # NoReason]_vars

----------------------------------------------------------------------------
(* Claims on the signals of monitor.js *)

AddressesOf(list) == {list[i].address : i \in 1..Len(list)}

\* the signals of the sources that reported the token in the cycle
SignalsReported(c, t) ==
  {sg \in {"whaleActivity", "viralSignal", "volumeSpike", "freshLaunch"} :
     \/ sg = "whaleActivity" /\ t \in AddressesOf(c.whaleBuys)
     \/ sg = "viralSignal" /\ t \in AddressesOf(c.viralTokens)
     \/ sg = "volumeSpike" /\ t \in AddressesOf(c.volumeSpikes)
     \/ sg = "freshLaunch" /\ t \in AddressesOf(c.freshLaunches)}

\* C27: every token of the combined candidate list carries whaleActivity,
\* viralSignal, volumeSpike and freshLaunch exactly for those of the four
\* signal sources that reported it in the cycle, whatever the order of the
\* merge, the source that introduced it and the screening caps.
C27_SignalsAreUnioned ==
  (call.fn = "signalMap" /\ result # NoResult) =>
    \A t \in SignalTokens :
      result.signalMap[t] # NoEntry
        => result.signalMap[t].signals = SignalsReported(call, t)

\* C29: addPosition for a token that already has an open position is
\* rejected: the stored positions grow only by a token that had none.
C29_AddRejectsOpenToken ==
  [][Len(positionsNow') > Len(positionsNow)
       => positionsNow'[Len(positionsNow')].tokenAddress \notin TokensOf(positionsNow)]_vars

\* C30: closePosition for a token with no open position appends no trade and
\* changes neither the positions nor the P&L, the daily statistics or the
\* halt flag; a trade is recorded only by a close that finds the position in
\* the store and removes it, so a second close of it records nothing.
C30_CloseOfNothing ==
  [][/\ \A t \in Tokens, r \in StoreSolReceiveds :
          (getPosition(Store, t, clock) = None /\ StoreCloseOf(t, r))
            => /\ positionsNow' = positionsNow
               /\ StoreKeptInStep
               /\ sumPnl' = sumPnl
     /\ Len(tradeHistory') > Len(tradeHistory)
          => /\ \E i \in 1..Len(positionsNow) :
                  positionsNow[i].id = tradeHistory'[Len(tradeHistory')].positionId
             /\ \A i \in 1..Len(positionsNow') :
                  positionsNow'[i].id # tradeHistory'[Len(tradeHistory')].positionId]_vars

\* tokA has been closed, has no open position, and the trade of its position
\* is the only one: a state a second close of it leaves as it is
C30_Witness ==
  /\ Len(tradeHistory) = 1
  /\ tradeHistory[1].tokenAddress = "tokA"
  /\ getPosition(Store, "tokA", clock) = None
  /\ readState(stateFile, defaultState, clock).dailyStats.trades = 1

\* C31: in evaluatePositions the advisor is asked about a position only when
\* checkMechanicalExits reported no exit for it in that tick; after a
\* mechanical exit, whether its sell succeeded or failed, the advisor's sell
\* that follows is for another position.
C31_AdvisorOnlyWithoutExit ==
  [][/\ (lastCheck' # NoCheck /\ lastCheck'.advised) => lastCheck'.reason = "none"
     /\ scan'.pc = "advSell" => ~scan'.exitCheck.shouldExit
     /\ (scan.pc = "sell" /\ scan'.pc = "advSell")
          => Head(scan'.positions).id # Head(scan.positions).id]_vars

\* the second scan cycle found a stop loss for the position, its sell failed,
\* the cycle has gone on to the candidates and the advisor was not asked
C31_Witness ==
  /\ cycles = MaxCycles - 2
  /\ scan.pc = "delay"
  /\ mon.pc = "idle"
  /\ lastCheck # NoCheck
  /\ lastCheck.reason = "stop_loss"
  /\ ~lastCheck.advised
  /\ \E i \in 1..Len(positionsNow) :
       /\ positionsNow[i].id = lastCheck.id
       /\ clock > positionsNow[i].entryTime

\* the trade a step appends to the history, if it appends one
AppendedInStep ==
  IF Len(tradeHistory') > Len(tradeHistory)
  THEN {tradeHistory'[Len(tradeHistory')]}
  ELSE {}

\* C32: no write of a store operation undoes what the other loop persisted:
\* in every step of the interleaved scan cycle and monitoring run each stored
\* position stays stored unless this step closes it, the trades recorded stay
\* as they are with at most one appended, the realized P&L moves by exactly
\* the appended trade's pnl, and a halt that was set stays set.
C32_NoLostUpdate ==
  [][/\ \A i \in 1..Len(positionsNow) :
          \/ \E j \in 1..Len(positionsNow') : positionsNow'[j].id = positionsNow[i].id
          \/ \E trade \in AppendedInStep : trade.positionId = positionsNow[i].id
     /\ Len(tradeHistory') <= Len(tradeHistory) + 1
     /\ SubSeq(tradeHistory', 1, Len(tradeHistory)) = tradeHistory
     /\ \/ AppendedInStep = {} /\ pnlNow'.realized = pnlNow.realized
        \/ \E trade \in AppendedInStep : pnlNow'.realized = pnlNow.realized + trade.pnl
     /\ isPaused => isPaused']_vars

\* the monitoring run is about to close a position while the store holds a
\* position that the scan cycle added after the run had read its list
C32_Witness ==
  /\ mon.pc = "sell"
  /\ mon.exitCheck.exitPercent = 100
  /\ \E i, j \in 1..Len(positionsNow) :
       /\ positionsNow[i].id = Head(mon.positions).id
       /\ j > i
       /\ \A k \in 1..Len(mon.positions) : mon.positions[k].id # positionsNow[j].id

\* the sum of pnl over the trades of a history
RECURSIVE SumOfPnl(_)
SumOfPnl(trades) ==
  IF trades = << >> THEN 0 ELSE Head(trades).pnl + SumOfPnl(Tail(trades))

RECURSIVE SumOfSolSpent(_)
SumOfSolSpent(positions) ==
  IF positions = << >> THEN 0
  ELSE Head(positions).solSpent + SumOfSolSpent(Tail(positions))

\* C34: a position opened by evaluateForEntry has solSpent of at most
\* config.risk.maxPositionSize whatever size the advisor named, and the
\* solSpent of the open positions adds up to at most maxConcurrentPositions
\* times maxPositionSize.
C34_PositionSizeClamped ==
  /\ \A i \in 1..Len(positionsNow) :
       positionsNow[i].id <= opened => positionsNow[i].solSpent <= Sol(maxPositionSize)
  /\ scan.pc = "buy" => scan.size <= maxPositionSize
  /\ SumOfSolSpent(positionsNow) <= maxConcurrentPositions * Sol(maxPositionSize)

\* evaluateForEntry has opened a position of the maximum size, for a decision
\* that named more, next to the position the store already held
C34_Witness ==
  /\ Len(positionsNow) = maxConcurrentPositions
  /\ \E i \in 1..Len(positionsNow) :
       /\ positionsNow[i].id <= opened
       /\ positionsNow[i].solSpent = Sol(maxPositionSize)
  /\ SumOfSolSpent(positionsNow) = maxConcurrentPositions * Sol(maxPositionSize)

\* C35: the scalper holds one position at a time: a step sets currentPosition
\* to a new position only when it was null, and while a scan is in progress,
\* at any of its awaits and under any interleaving with the monitor interval's
\* pending calls, no position is open.
C35_OnePositionAtATime ==
  [][/\ (currentPosition' # NoPosition /\ currentPosition' # currentPosition)
          => currentPosition = NoPosition
     /\ isScanning' => currentPosition' = NoPosition]_vars

\* the second position was bought while a monitorPosition call started for
\* the first one was still waiting for its price
C35_Witness ==
  /\ currentPosition # NoPosition
  /\ currentPosition.id = 2
  /\ \E m \in MonitorCalls : inflight[m] # NoFetch /\ inflight[m].id = 1

\* C40: the price a monitorPosition call applies in checkExitRules and
\* executeSell was fetched for the position it is applied to.
C40_PriceOfOwnPosition ==
  lastTick # NoTick => lastTick.fetchedFor = lastTick.position

\* C36: a monitorPositions run visits every position that was open when it
\* started: it starts on the list of all open positions, each price answer
\* evaluates the position heading the list (as the store holds it, or the
\* position the store now holds on its token) or skips it only for a price
\* that is not positive, and after a price answer or a sell answer, failed or
\* not, the run goes on with the rest of the list.
C36_EveryPositionEvaluated ==
  [][/\ (mon.pc = "idle" /\ mon'.pc # "idle")
          => mon'.positions = Snapshot(positionsNow)
     /\ (mon.pc = "price" /\ mon' # mon)
          => /\ \/ lastCheck'.id = Head(mon.positions).id
                \/ \E i \in 1..Len(positionsNow) :
                     /\ positionsNow[i].tokenAddress = Head(mon.positions).tokenAddress
                     /\ positionsNow[i].id = lastCheck'.id
             /\ lastCheck'.reason = "skipped" => lastCheck'.price <= 0
             /\ \/ mon'.pc = "sell" /\ mon'.positions = mon.positions
                \/ MonNext(Tail(mon.positions))
     /\ (mon.pc = "sell" /\ mon' # mon)
          => MonNext(Tail(mon.positions))]_vars

\* the first run of the monitor found a stop loss for the first of its two
\* positions, the sell failed, and the run is fetching the price of the second
C36_Witness ==
  /\ cycles = MaxSlotsCycles - 1
  /\ scan.pc = "idle"
  /\ mon.pc = "price"
  /\ Len(mon.positions) = 1
  /\ Len(positionsNow) = 2
  /\ positionsNow[2].id = Head(mon.positions).id
  /\ lastCheck # NoCheck
  /\ lastCheck.id = positionsNow[1].id
  /\ lastCheck.reason = "stop_loss"

\* C37: the scan-in-progress guards are set exactly while a scan is executing:
\* isRunning of monitor.js and isScanning of the scalper are true at every
\* await of a scan and false once it has ended, by completion, by an early
\* return or by an exception.
C37_GuardsNeverStick ==
  /\ isRunning <=> scan.pc # "idle"
  /\ isScanning <=> scanPc # "idle"

\* a scan cycle has run, opened a position and ended; the next scheduled
\* cycle finds the guard released
C37_Witness ==
  /\ scan.pc = "idle"
  /\ ~isRunning
  /\ opened = 1
  /\ ~isPaused
  /\ cycles > 0
  /\ cycles < MaxCycles

\* a scan cycle is about to throw: its partial take-profit sell is pending
\* for a position that the monitoring run has closed meanwhile
ScanThrowsNext ==
  /\ scan.pc = "sell"
  /\ scan.exitCheck.exitPercent # 100
  /\ scan.exitCheck.tpLevel # 0
  /\ getPosition(Store, Head(scan.positions).tokenAddress, clock) = None

\* C38: in the scalper a monitoring tick that gets a positive price for a
\* position opened with a positive entry price, MAX_HOLD_MINUTES or more after
\* its entry, closes the position, by TAKE_PROFIT, STOP_LOSS or TIMEOUT.
C38_ClosedAfterMaxHold ==
  [][\A m \in MonitorCalls, pair \in MonitorPairs :
       (/\ MonitorDataAnswer(m, pair)
        /\ currentPosition # NoPosition
        /\ currentPosition.entryPrice > 0
        /\ parsePrice(pair.priceUsd) > 0
        /\ minutes - currentPosition.entryTime >= MAX_HOLD_MINUTES)
         => /\ currentPosition' = NoPosition
            /\ lastTick'.reason \in {"TAKE_PROFIT", "STOP_LOSS", "TIMEOUT"}
            /\ lastTick'.position = currentPosition.id
            /\ exits'[currentPosition.address].time = minutes]_vars

\* a position held for MAX_HOLD_MINUTES at a small loss has just been closed
\* by the timeout
C38_Witness ==
  /\ currentPosition = NoPosition
  /\ lastTick # NoTick
  /\ lastTick.reason = "TIMEOUT"
  /\ lastTick.price > 0
  /\ \E t \in Tokens : exits[t] # NoExit /\ exits[t].time = minutes
                                        /\ minutes >= MAX_HOLD_MINUTES

\* C39: the halt stops scan cycles from starting and nothing else: while
\* isPaused is true a monitoring run still starts on every open position,
\* every price answer still evaluates its position or skips it only for a
\* price that is not positive, and a successful sell for a mechanical exit at
\* 100% still removes the position, records its trade and moves the realized
\* P&L by the trade's pnl.
C39_HaltStopsOnlyOpenings ==
  [][isPaused =>
       /\ scan.pc = "idle" => scan'.pc = "idle"
       /\ (mon.pc = "idle" /\ positionsNow # << >> /\ cycles > 0) => ENABLED FlowMonStart
       /\ (mon.pc = "idle" /\ mon'.pc # "idle") => mon'.positions = Snapshot(positionsNow)
       /\ (mon.pc = "price" /\ mon' # mon)
            => /\ lastCheck' # lastCheck \/ lastCheck.id = Head(mon.positions).id
               /\ lastCheck'.reason = "skipped" => lastCheck'.price <= 0
       /\ (/\ MonSellAnswer(TRUE)
           /\ mon.exitCheck.exitPercent = 100
           /\ getPosition(Store, Head(mon.positions).tokenAddress, clock) # None)
            => \E trade \in AppendedInStep :
                 /\ trade.tokenAddress = Head(mon.positions).tokenAddress
                 /\ \A i \in 1..Len(positionsNow') : positionsNow'[i].id # trade.positionId
                 /\ pnlNow'.realized = pnlNow.realized + trade.pnl]_vars

\* trading is paused and the monitoring run has just closed an open position
\* on a mechanical exit
C39_Witness ==
  /\ isPaused
  /\ Len(tradeHistory) = 2
  /\ positionsNow = << >>
  /\ lastCheck # NoCheck
  /\ lastCheck.reason # "none"
  /\ lastCheck.reason # "skipped"
  /\ tradeHistory[2].positionId = lastCheck.id
  /\ tradeHistory[2].tokenAddress # tradeHistory[1].tokenAddress
  /\ tradeHistory[1].pnl < 0

====
